---- MODULE Spec2Model ----
(***************************************************************************)
(* Model of the DAOS server erasure-coded object aggregation               *)
(* (src/object/srv_ec_aggregate.c, here src/unnamed/part_000).             *)
(*                                                                         *)
(* One parity shard of one EC object traverses the replica extents of one  *)
(* akey.  The local VOS store holds replica extents and, per stripe, the   *)
(* parity extents; the iterator delivers the visible pieces of the replica *)
(* extents in ascending offset; the stripe assembler groups them into      *)
(* stripes and agg_process_stripe reconciles each stripe with its parity.  *)
(***************************************************************************)
EXTENDS Integers, Sequences, FiniteSets, TLC

(* ------------------------------ bounds -------------------------------- *)
\* replica extents start at records 0..MaxIdx-1 and hold 1..MaxLen records
MaxIdx == 3
MaxLen == 4
\* epochs of replica extents are 1..MaxEpoch
MaxEpoch == 2
\* replica extents written before the run
MaxWrites == 2
\* hole (punch) extents among them
MaxHoles == 1
\* stripes that hold parity before the run
MaxParity == 1
\* failures injected into one run
MaxFaults == 1
\* the longer arrays: starts 0..WideIdx-1, 1..WideLen records
WideIdx == 7
WideLen == 2
\* one stripe of three cells: starts 0..CellIdx-1, 1..CellLen records, up to
\* CellExtents replica extents
CellIdx == 7
CellLen == 3
CellExtents == 3
\* successive runs of ds_obj_ec_aggregate over the same epoch range
MaxRuns == 2
\* the container: objects 1..MaxObjs, dkeys and akeys 1..MaxKeys, stripes
\* 0..MaxStripe, at most MaxEntries entries in the container
MaxObjs == 2
MaxKeys == 2
MaxStripe == 1
MaxEntries == 6
\* ap_credits_max, EC_AGG_ITERATION_MAX in the source, reduced
CreditsMax == 2
\* units of work offloaded one after the other
MaxOffloads == 3

(* -------------------------- program constants -------------------------- *)
\* EC_AGE_EPOCH_NO_PARITY is ~0ULL: larger than every epoch
EC_AGE_EPOCH_NO_PARITY == MaxEpoch + 100

\* EC object classes (K data cells, P parity cells, L records per cell) and
\* the parity shard the engine runs on
Classes == { [k |-> 2, p |-> 1, len |-> 1],
             [k |-> 2, p |-> 2, len |-> 1],
             [k |-> 2, p |-> 2, len |-> 2] }

VARIABLES
  pc,             \* position of the run: setup, recx, akey_post, end, done, crashed
  oca,            \* ae_oca: the object class
  shard,          \* ae_oid.id_shard
  vos,            \* the local store: rep (replica extents), par (parity extents)
  iter,           \* the entries the recx iterator delivers for the akey
  pos,            \* index of the next entry of iter
  entry,          \* struct ec_agg_entry: the current stripe, parity probe, peers
  hist,           \* one record per agg_process_stripe call of the run
  nfaults,        \* failures injected so far
  rc_run,         \* return code of the traversal
  ap_epr,         \* epoch range of the run
  is_current,     \* the is_current argument
  sc_ec_agg_eph,  \* the container's last-aggregated-epoch watermark
  runs,           \* the local store at each return of ds_obj_ec_aggregate
  trav,           \* vos_iterate over the container: position, anchors, agg_param
  ult             \* the offloaded unit of work: caller, eventual, ULT

vars == << pc, oca, shard, vos, iter, pos, entry, hist, nfaults, rc_run,
           ap_epr, is_current, sc_ec_agg_eph, runs, trav, ult >>

\* DAOS_RECX_END
DAOS_RECX_END(recx) == recx.rx_idx + recx.rx_nr

Recx(idx, nr) == [rx_idx |-> idx, rx_nr |-> nr]

\* the last record a replica extent may reach, exclusive
EndIdx == MaxIdx + MaxLen

(* ------------------------ the extent store (VOS) ----------------------- *)
\* A replica extent as written: its record range, epoch, hole (punch) flag.
Writes == { [rx_idx |-> i, rx_nr |-> n, epoch |-> ep, hole |-> h] :
              i \in 0..(MaxIdx - 1), n \in 1..MaxLen,
              ep \in 1..MaxEpoch, h \in BOOLEAN }

Covers(w, i) == w.rx_idx <= i /\ i < w.rx_idx + w.rx_nr

Overlap(w1, w2) == w1.rx_idx < w2.rx_idx + w2.rx_nr
                   /\ w2.rx_idx < w1.rx_idx + w1.rx_nr

\* the write visible at record i: the covering write of the highest epoch
TopAt(S, i) == LET C == { w \in S : Covers(w, i) }
               IN CHOOSE w \in C : \A v \in C : v.epoch <= w.epoch

Covered(S, i) == \E w \in S : Covers(w, i)

\* vos_iterate(VOS_ITER_RECX, VOS_IT_RECX_VISIBLE): the visible pieces of the
\* replica extents, ascending; each entry carries the visible range ie_recx,
\* the range of the whole extent ie_orig_recx, its epoch and the hole flag.
RECURSIVE VisibleFrom(_, _, _)
VisibleFrom(S, i, acc) ==
  IF i >= EndIdx THEN acc
  ELSE IF ~Covered(S, i) THEN VisibleFrom(S, i + 1, acc)
  ELSE LET w == TopAt(S, i)
           n == Len(acc)
       IN IF n > 0 /\ DAOS_RECX_END(acc[n].ie_recx) = i
               /\ acc[n].ie_orig_recx = Recx(w.rx_idx, w.rx_nr)
               /\ acc[n].ie_epoch = w.epoch /\ acc[n].ie_hole = w.hole
          THEN VisibleFrom(S, i + 1,
                 [acc EXCEPT ![n].ie_recx.rx_nr = acc[n].ie_recx.rx_nr + 1])
          ELSE VisibleFrom(S, i + 1,
                 Append(acc, [ie_recx |-> Recx(i, 1),
                              ie_orig_recx |-> Recx(w.rx_idx, w.rx_nr),
                              ie_epoch |-> w.epoch,
                              ie_hole |-> w.hole]))

VisibleExtents(S) == VisibleFrom(S, 0, << >>)

\* vos_obj_array_remove on the replica space: the extents that lie wholly
\* inside recx and whose epoch is inside [lo, hi] are removed.
RangeRemove(rep, recx, lo, hi) ==
  { w \in rep : ~(recx.rx_idx <= w.rx_idx
                  /\ w.rx_idx + w.rx_nr <= DAOS_RECX_END(recx)
                  /\ lo <= w.epoch /\ w.epoch <= hi) }

\* vos_obj_array_remove on the parity extent of a stripe
ParityRemove(par, stripenum, lo, hi) ==
  { x \in par : ~(x.stripenum = stripenum /\ lo <= x.epoch /\ x.epoch <= hi) }

\* the parity extent the probe of a stripe sees: the newest one
ParityEpochs(par, stripenum) == { x.epoch : x \in { y \in par : y.stripenum = stripenum } }

VisibleParity(par, stripenum) ==
  LET E == ParityEpochs(par, stripenum)
  IN IF E = {} THEN EC_AGE_EPOCH_NO_PARITY
     ELSE CHOOSE x \in E : \A y \in E : y <= x

(* ------------------------- accessors of the entry ---------------------- *)
ec_age2k == oca.k
ec_age2p == oca.p
ec_age2cs == oca.len
\* obj_ec_stripe_rec_nr
ec_age2ss == oca.k * oca.len
ec_age2shard == shard
ec_age2pidx == ((shard % (oca.k + oca.p)) - oca.k) % oca.p

\* rounddown(shard, k + p) + k + peer
PeerShard(peer) == (shard - (shard % (oca.k + oca.p))) + oca.k + peer

\* the rank that hosts a shard in the object layout (never rank 0 here)
RankOfShard(s) == s + 1

ec_age_with_parity(m) == m.ape_epoch # EC_AGE_EPOCH_NO_PARITY
ec_age_parity_higher(m) == m.ape_epoch >= m.st.as_hi_epoch
ec_age_with_hole(m) == m.st.as_has_holes

agg_stripenum(ex_lo) == ex_lo \div ec_age2ss

(* --------------------------- stripe assembler -------------------------- *)
\* struct ec_agg_stripe after agg_reset_entry / a finished akey
EmptyStripe == [ as_stripenum |-> 0, as_hi_epoch |-> 0,
                 as_dextents |-> << >>, as_hoextents |-> << >>,
                 as_stripe_fill |-> 0, as_extent_cnt |-> 0,
                 as_ho_ext_cnt |-> 0, as_offset |-> 0,
                 as_has_holes |-> FALSE ]

\* agg_carry_over: the number of records of the extent that lie in the next
\* stripe, and its assertion that the extent spans at most two stripes
agg_carry_over(extent) ==
  LET start_stripe == extent.ae_recx.rx_idx \div ec_age2ss
      end_stripe == (extent.ae_recx.rx_idx + extent.ae_recx.rx_nr - 1)
                      \div ec_age2ss
  IN IF end_stripe > start_stripe
     THEN DAOS_RECX_END(extent.ae_recx) - end_stripe * ec_age2ss
     ELSE 0

agg_carry_over_assert(extent) ==
  LET start_stripe == extent.ae_recx.rx_idx \div ec_age2ss
      end_stripe == (extent.ae_recx.rx_idx + extent.ae_recx.rx_nr - 1)
                      \div ec_age2ss
  IN end_stripe > start_stripe => end_stripe - start_stripe = 1

\* the body of the loop of agg_clear_extents over as_dextents.  Every node
\* is unlinked from as_dextents; a node without tail is moved to as_hoextents
\* or freed; the trimmed node of a carried-over extent is neither (lost).
\* a: the stripe being rewritten, ptail, carry_is_hole, the lost nodes, and
\* whether an assertion failed
ClearStep(a, extent) ==
  LET next_stripe_st == (a.st.as_stripenum + 1) * ec_age2ss
      tail == agg_carry_over(extent)
      trimmed == [extent EXCEPT
                    !.ae_recx = Recx(extent.ae_recx.rx_idx
                                       + extent.ae_recx.rx_nr - tail, tail)]
      asserts == /\ agg_carry_over_assert(extent)
                 /\ (tail # 0 => /\ a.ptail = 0
                                 /\ extent.ae_recx.rx_nr >= tail
                                 /\ trimmed.ae_recx.rx_idx = next_stripe_st)
      is_ho == DAOS_RECX_END(extent.ae_orig_recx) > next_stripe_st /\ tail = 0
  IN IF ~asserts THEN [a EXCEPT !.abort = TRUE]
     ELSE [a EXCEPT
             !.ptail = IF tail # 0 THEN tail ELSE a.ptail,
             !.carry_is_hole = a.carry_is_hole \/ (extent.ae_hole /\ tail # 0),
             !.lost = IF tail # 0 THEN Append(a.lost, trimmed) ELSE a.lost,
             !.st.as_hi_epoch = IF tail # 0 THEN extent.ae_epoch
                                ELSE a.st.as_hi_epoch,
             !.st.as_extent_cnt = a.st.as_extent_cnt - 1,
             !.st.as_hoextents = IF is_ho THEN Append(a.st.as_hoextents, extent)
                                 ELSE a.st.as_hoextents,
             !.st.as_ho_ext_cnt = IF is_ho THEN a.st.as_ho_ext_cnt + 1
                                  ELSE a.st.as_ho_ext_cnt]

RECURSIVE ClearLoop(_, _, _)
ClearLoop(exts, i, a) ==
  IF i > Len(exts) \/ a.abort THEN a
  ELSE ClearLoop(exts, i + 1, ClearStep(a, exts[i]))

\* the extent list left as it is
agg_clear_extents_kept(m) == m

\* agg_clear_extents as it would be if the hold-over list of the stripe
\* before were not emptied first
agg_clear_extents_ho_kept(m) ==
  LET Seed(a) ==
        IF a.abort \/ ~(a.ptail # 0 \/ a.st.as_extent_cnt = 0)
        THEN [m EXCEPT !.abort = TRUE]
        ELSE [m EXCEPT
                !.lost = m.lost \o a.lost,
                !.st = [a.st EXCEPT
                          !.as_dextents = << >>,
                          !.as_offset = 0,
                          !.as_stripenum = IF a.ptail # 0
                                           THEN a.st.as_stripenum + 1
                                           ELSE a.st.as_stripenum,
                          !.as_hi_epoch = IF a.ptail # 0
                                          THEN a.st.as_hi_epoch ELSE 0,
                          !.as_stripe_fill = a.ptail,
                          !.as_has_holes = a.carry_is_hole]]
  IN Seed(ClearLoop(m.st.as_dextents, 1,
                    [st |-> m.st, ptail |-> 0, carry_is_hole |-> FALSE,
                     lost |-> << >>, abort |-> FALSE]))

\* agg_clear_extents
agg_clear_extents(m) ==
  LET Seed(a) ==
        IF a.abort \/ ~(a.ptail # 0 \/ a.st.as_extent_cnt = 0)
        THEN [m EXCEPT !.abort = TRUE]
        ELSE [m EXCEPT
                !.lost = m.lost \o a.lost,
                !.st = [a.st EXCEPT
                          !.as_dextents = << >>,
                          !.as_offset = 0,
                          !.as_stripenum = IF a.ptail # 0
                                           THEN a.st.as_stripenum + 1
                                           ELSE a.st.as_stripenum,
                          !.as_hi_epoch = IF a.ptail # 0
                                          THEN a.st.as_hi_epoch ELSE 0,
                          !.as_stripe_fill = a.ptail,
                          !.as_has_holes = a.carry_is_hole]]
  IN Seed(ClearLoop(m.st.as_dextents, 1,
                    [st |-> [m.st EXCEPT !.as_hoextents = << >>,
                                         !.as_ho_ext_cnt = 0],
                     ptail |-> 0, carry_is_hole |-> FALSE,
                     lost |-> << >>, abort |-> FALSE]))

\* agg_in_stripe: the records of recx that lie in the stripe recx starts in
agg_in_stripe(recx) ==
  LET stripe_end == ((recx.rx_idx \div ec_age2ss) + 1) * ec_age2ss
  IN IF recx.rx_idx + recx.rx_nr > stripe_end
     THEN stripe_end - recx.rx_idx
     ELSE recx.rx_nr

\* ec_age_data_is_newer
ec_age_data_is_newer(m) ==
  \A i \in 1..Len(m.st.as_dextents) :
     ~(m.st.as_dextents[i].ae_epoch <= m.ape_epoch)

\* ec_age_stripe_full
ec_age_stripe_full(m, has_parity) ==
  (m.st.as_stripe_fill = ec_age2ss)
    /\ (~has_parity \/ ec_age_data_is_newer(m))

\* agg_contained
agg_contained(m) ==
  LET ss == ec_age2ss * m.st.as_stripenum
      se == ss + ec_age2ss
  IN \A i \in 1..Len(m.st.as_dextents) :
       ~(m.st.as_dextents[i].ae_orig_recx.rx_idx < ss
         \/ DAOS_RECX_END(m.st.as_dextents[i].ae_orig_recx) > se)

(* ------------------------------ failures ------------------------------- *)
\* what may go wrong inside one agg_process_stripe call
Faults == { "none", "probe", "fetch", "encode", "tgt_failed", "rpc",
            "vos_update" }

\* the parity indexes of the peers, ascending
Peers == { peer \in 0..(ec_age2p - 1) : peer # ec_age2pidx }

\* pool_map_find_failed_tgts: the ranks the pool map lists as failed during
\* the call (under "tgt_failed" the rank of the first peer parity shard)
FailedRanks(fault) ==
  IF fault = "tgt_failed" /\ Peers # {}
  THEN { RankOfShard(PeerShard(CHOOSE x \in Peers : \A y \in Peers : x <= y)) }
  ELSE {}

\* whether the target of the parity shard of a peer is down during the call
TargetDown(peer, fault) == RankOfShard(PeerShard(peer)) \in FailedRanks(fault)

\* ae_peer_pshards after agg_reset_entry (memset 0), before the layout is read
NoPeerShards == [peer \in 0..(ec_age2p - 1) |-> 0]

\* agg_get_obj_handle: opens the object once and reads the ranks of the
\* parity shards from its layout
agg_get_obj_handle(m) ==
  IF m.obj_hdl THEN m
  ELSE [m EXCEPT !.obj_hdl = TRUE,
                 !.pshards = [peer \in 0..(ec_age2p - 1) |->
                                RankOfShard(PeerShard(peer))]]

Log(m, event) == [m EXCEPT !.ev = Append(m.ev, event)]

(* ----------------------------- full encode ----------------------------- *)
\* agg_encode_local_parity: the stripe is fetched from the local store, then
\* encoded on the offload xstream; the result of agg_encode_full_stripe is
\* not looked at.
agg_encode_local_parity(m, fault) ==
  IF fault = "fetch" THEN [m |-> m, rc |-> -1]
  ELSE IF fault = "encode" THEN [m |-> m, rc |-> 0]
  ELSE [m |-> [m EXCEPT !.pbuf = [src |-> "encode",
                                  stripenum |-> m.st.as_stripenum,
                                  epoch |-> m.st.as_hi_epoch]],
        rc |-> 0]

(* ---------------------------- partial stripe --------------------------- *)
\* agg_overlap
agg_overlap(estart, elen, cell, k, len, stripenum) ==
  LET cell_start == k * len * stripenum + len * cell
      es == estart + k * len * stripenum
  IN \/ (cell_start <= es /\ es < cell_start + len)
     \/ (es <= cell_start /\ cell_start < es + elen)

\* agg_count_cells, one cell i; c: fcbit_map, tbit_map, full_cell_cnt, cell_cnt
CountCell(c, i, estart, elen, k, len, stripenum) ==
  IF i * len >= estart /\ estart + elen >= (i + 1) * len
  THEN [c EXCEPT !.tbit_map = c.tbit_map \cup {i},
                 !.fcbit_map = c.fcbit_map \cup {i},
                 !.full_cell_cnt = c.full_cell_cnt + 1,
                 !.cell_cnt = c.cell_cnt + 1]
  ELSE IF agg_overlap(estart, elen, i, k, len, stripenum) /\ i \notin c.tbit_map
  THEN [c EXCEPT !.tbit_map = c.tbit_map \cup {i},
                 !.cell_cnt = c.cell_cnt + 1]
  ELSE c

RECURSIVE agg_count_cells(_, _, _, _, _, _, _)
agg_count_cells(c, i, estart, elen, k, len, stripenum) ==
  IF i >= k THEN c
  ELSE agg_count_cells(CountCell(c, i, estart, elen, k, len, stripenum),
                       i + 1, estart, elen, k, len, stripenum)

\* the loop of agg_process_partial_stripe over the extents of the stripe
RECURSIVE CellScan(_, _, _, _, _, _, _)
CellScan(exts, i, c, ape_epoch, ss, k, len) ==
  IF i > Len(exts) THEN c
  ELSE LET extent == exts[i]
           off == extent.ae_recx.rx_idx - ss
           stripenum == ss \div (k * len)
       IN IF extent.ae_hole THEN [c EXCEPT !.abort = TRUE]
          ELSE IF extent.ae_epoch <= ape_epoch
          THEN CellScan(exts, i + 1, [c EXCEPT !.has_old_replicas = TRUE],
                        ape_epoch, ss, k, len)
          ELSE IF c.estart = off
          THEN CellScan(exts, i + 1,
                        [c EXCEPT !.eend = c.estart + extent.ae_recx.rx_nr,
                                  !.elen = extent.ae_recx.rx_nr],
                        ape_epoch, ss, k, len)
          ELSE LET c1 == IF off > c.eend
                         THEN [agg_count_cells(c, 0, c.estart, c.elen, k, len,
                                               stripenum)
                                 EXCEPT !.estart = off, !.elen = 0]
                         ELSE c
               IN CellScan(exts, i + 1,
                           [c1 EXCEPT !.elen = c1.elen + extent.ae_recx.rx_nr,
                                      !.eend = c1.eend + extent.ae_recx.rx_nr],
                           ape_epoch, ss, k, len)

\* the cell accounting of agg_process_partial_stripe and its choice between
\* recalculation and incremental update
CellAccount(exts, as_offset, ape_epoch, stripenum, k, len) ==
  LET Account(c2, recalc) ==
        [abort |-> c2.abort, asu_recalc |-> recalc,
         full_cell_cnt |-> c2.full_cell_cnt, touched_cnt |-> c2.cell_cnt,
         fcbit_map |-> c2.fcbit_map, tbit_map |-> c2.tbit_map,
         \* the cells fetched from the local store
         local_map |-> IF recalc THEN c2.fcbit_map ELSE c2.tbit_map,
         local_cnt |-> IF recalc THEN c2.full_cell_cnt ELSE c2.cell_cnt,
         \* the cells fetched from the data shards
         bit_map |-> IF recalc THEN (0..(k - 1)) \ c2.fcbit_map
                     ELSE c2.tbit_map,
         cell_cnt |-> IF recalc THEN k - c2.full_cell_cnt ELSE c2.cell_cnt]
      Recalc(c2) ==
        Account(c2, c2.full_cell_cnt >= k \div 2 \/ c2.cell_cnt = k
                      \/ c2.has_old_replicas)
      LastExtent(c1) ==
        Recalc(IF c1.abort THEN c1
               ELSE agg_count_cells(c1, 0, c1.estart, c1.elen, k, len,
                                    stripenum))
  IN LastExtent(CellScan(exts, 1,
                         [fcbit_map |-> {}, tbit_map |-> {},
                          full_cell_cnt |-> 0, cell_cnt |-> 0,
                          estart |-> as_offset, elen |-> 0, eend |-> 0,
                          has_old_replicas |-> FALSE, abort |-> FALSE],
                         ape_epoch, k * len * stripenum, k, len))

\* agg_diff_preprocess, one extent of the list; d: hole_off, the records of
\* the diff zeroed so far (offsets in the cell), done after the break
DiffStep(d, extent, ape_epoch, ss, cell_start, len) ==
  LET estart == extent.ae_recx.rx_idx - ss
      eend == extent.ae_recx.rx_idx - ss + extent.ae_recx.rx_nr
      hole_end == cell_start + d.hole_off
  IN IF extent.ae_epoch <= ape_epoch THEN d
     ELSE IF estart >= cell_start + len THEN [d EXCEPT !.done = TRUE]
     ELSE IF eend <= cell_start THEN d
     ELSE [d EXCEPT !.zeroed = IF estart > hole_end
                               THEN d.zeroed \cup
                                    (d.hole_off..(d.hole_off + estart
                                                    - hole_end - 1))
                               ELSE d.zeroed,
                    !.hole_off = eend - cell_start]

RECURSIVE DiffScan(_, _, _, _, _, _, _)
DiffScan(exts, i, d, ape_epoch, ss, cell_start, len) ==
  IF i > Len(exts) \/ d.done THEN d
  ELSE DiffScan(exts, i + 1,
                DiffStep(d, exts[i], ape_epoch, ss, cell_start, len),
                ape_epoch, ss, cell_start, len)

\* agg_diff_preprocess: the offsets in cell cell_idx of the records of the
\* diff that are set to zero
agg_diff_preprocess(exts, ape_epoch, stripenum, cell_idx, k, len) ==
  LET Rest(d) == IF d.hole_off > 0 /\ d.hole_off < len
                 THEN d.zeroed \cup (d.hole_off..(len - 1))
                 ELSE d.zeroed
  IN Rest(DiffScan(exts, 1, [hole_off |-> 0, zeroed |-> {}, done |-> FALSE],
                   ape_epoch, k * len * stripenum, cell_idx * len, len))

\* while (!isset(bit_map, j)) j++
NextSetBit(bit_map, j) ==
  CHOOSE x \in bit_map : x >= j /\ \A y \in bit_map : y >= j => x <= y

\* agg_update_parity: the loop over the cell_cnt fetched pairs of old and new
\* cells; each step gives the pair, the cell index handed to
\* agg_diff_preprocess and ec_encode_data_update, and the zeroed records
RECURSIVE agg_update_parity(_, _, _, _, _, _, _, _, _)
agg_update_parity(exts, ape_epoch, sn, bit_map, cell_cnt, k, len, i, j) ==
  LET Apply(j1) ==
        << [pair |-> i, cell |-> j1,
            zeroed |-> agg_diff_preprocess(exts, ape_epoch, sn, j1, k, len)] >>
          \o agg_update_parity(exts, ape_epoch, sn, bit_map, cell_cnt,
                               k, len, i + 1, j1)
  IN IF i >= cell_cnt THEN << >>
     ELSE Apply(NextSetBit(bit_map, j))

\* agg_process_partial_stripe with agg_process_partial_stripe_ult
agg_process_partial_stripe(m, fault) ==
  LET \* D_ASSERT(j == cell_cnt) of agg_fetch_local_extents and
      \* agg_fetch_odata_cells, D_ASSERT(r == cell_cnt) of agg_recalc_parity
      Asserts(a) ==
        /\ ~a.abort
        /\ (a.local_cnt # 0 => Cardinality(a.local_map) = a.local_cnt)
        /\ Cardinality(a.bit_map) = a.cell_cnt
      \* agg_fetch_odata_cells in agg_process_partial_stripe_ult
      Remote(a, m1) ==
        Log(m1, [op |-> "fetch_odata", cells |-> a.bit_map,
                 recalc |-> a.asu_recalc,
                 epoch |-> IF a.asu_recalc THEN m.st.as_hi_epoch
                           ELSE m.ape_epoch,
                 full_cell_cnt |-> a.full_cell_cnt,
                 touched_cnt |-> a.touched_cnt,
                 fcbit_map |-> a.fcbit_map, tbit_map |-> a.tbit_map,
                 status |-> IF fault = "fetch" THEN -1 ELSE 0])
      \* agg_fetch_local_extents, if (cell_cnt)
      Local(a, m1) ==
        Remote(a, IF a.local_cnt = 0 THEN m1
                  ELSE Log(m1, [op |-> "fetch_local", cells |-> a.local_map,
                                recalc |-> a.asu_recalc,
                                epoch |-> m.st.as_hi_epoch]))
      \* agg_recalc_parity or agg_update_parity
      Encode(a, m2) ==
        IF a.asu_recalc THEN m2
        ELSE Log(m2, [op |-> "update_parity", cells |-> a.bit_map,
                      applied |-> agg_update_parity(
                                    m.st.as_dextents, m.ape_epoch,
                                    m.st.as_stripenum, a.bit_map, a.cell_cnt,
                                    ec_age2k, ec_age2cs, 0, 0)])
      Parity(a, m2) ==
        IF fault = "fetch" THEN [m |-> m2, rc |-> -1]
        ELSE [m |-> [Encode(a, m2)
                       EXCEPT !.pbuf = [src |-> IF a.asu_recalc
                                                THEN "recalc" ELSE "update",
                                        stripenum |-> m.st.as_stripenum,
                                        epoch |-> m.st.as_hi_epoch]],
              rc |-> 0]
      Fetch(a, m1) ==
        IF ~Asserts(a) THEN [m |-> [m EXCEPT !.abort = TRUE], rc |-> 0]
        ELSE Parity(a, Local(a, m1))
  IN Fetch(CellAccount(m.st.as_dextents, m.st.as_offset, m.ape_epoch,
                       m.st.as_stripenum, ec_age2k, ec_age2cs),
           agg_get_obj_handle(m))

(* --------------------------- peer coordination ------------------------- *)
\* the (original recx, epoch) pairs of a list of extents
RECURSIVE RemoveEntries(_, _)
RemoveEntries(exts, i) ==
  IF i > Len(exts) THEN << >>
  ELSE << [recx |-> exts[i].ae_orig_recx, epoch |-> exts[i].ae_epoch] >>
         \o RemoveEntries(exts, i + 1)

\* the removal list agg_peer_update_ult fills for one request: every extent
\* of as_dextents, then every extent of as_hoextents
PeerRemoveList(m) ==
  RemoveEntries(m.st.as_dextents, 1)
    \o (IF m.st.as_ho_ext_cnt # 0 THEN RemoveEntries(m.st.as_hoextents, 1)
        ELSE << >>)

\* whether a request of agg_peer_update_ult carries a removal list
PeerHasRemoveList(m) == m.st.as_ho_ext_cnt # 0 \/ ~agg_contained(m)

\* the loop of agg_peer_update_ult over the peers peer..p-1; i is the index
\* into the removal arrays, which is not reset between two peers
RECURSIVE PeerLoop(_, _, _, _, _)
PeerLoop(m, peer, i, write_par, fault) ==
  IF peer >= ec_age2p THEN [m |-> m, rc |-> 0]
  ELSE IF peer = ec_age2pidx THEN PeerLoop(m, peer + 1, i, write_par, fault)
  ELSE LET has_list == PeerHasRemoveList(m)
           list == IF has_list THEN PeerRemoveList(m) ELSE << >>
           ea_remove_nr == m.st.as_ho_ext_cnt + m.st.as_extent_cnt
           \* D_ASSERT(ec_agg_in->ea_remove_nr == i)
           asserts == has_list => ea_remove_nr = i + Len(list)
           down == m.pshards[peer] \in FailedRanks(fault)
           first == \A x \in Peers : peer <= x
           status == IF down \/ (fault = "rpc" /\ first) THEN -1 ELSE 0
           req == [op |-> "rpc", type |-> "EC_AGGREGATE", peer |-> peer,
                   rank |-> m.pshards[peer], shard |-> PeerShard(peer),
                   tgt_down |-> TargetDown(peer, fault),
                   stripenum |-> m.st.as_stripenum,
                   epr_lo |-> ap_epr.epr_lo, epr_hi |-> m.st.as_hi_epoch,
                   bulk |-> write_par,
                   \* the cell of the parity buffer the bulk handle covers
                   cell |-> IF write_par THEN peer ELSE -1,
                   parity |-> IF write_par THEN m.pbuf
                              ELSE [src |-> "none", stripenum |-> 0, epoch |-> 0],
                   remove |-> list, status |-> status]
       IN IF ~asserts THEN [m |-> [m EXCEPT !.abort = TRUE], rc |-> 0]
          ELSE IF status # 0 THEN [m |-> Log(m, req), rc |-> status]
          ELSE PeerLoop(Log(m, req), peer + 1, i + Len(list), write_par, fault)

\* agg_peer_update_ult
agg_peer_update_ult(m, write_par, fault) == PeerLoop(m, 0, 0, write_par, fault)

\* the check of agg_peer_update against the failed targets of the pool map:
\* ae_peer_pshards is compared as it is when the function is entered
PeerFailedCheck(m, fault) ==
  \E peer \in 0..(ec_age2p - 1) : m.pshards[peer] \in FailedRanks(fault)

\* agg_peer_update as it would be if no request carried the parity
agg_peer_update_no_bulk(m, write_parity, fault) ==
  IF PeerFailedCheck(m, fault) THEN [m |-> m, rc |-> -1]
  ELSE agg_peer_update_ult(agg_get_obj_handle(m), FALSE, fault)

\* agg_peer_update
agg_peer_update(m, write_parity, fault) ==
  IF PeerFailedCheck(m, fault) THEN [m |-> m, rc |-> -1]
  ELSE agg_peer_update_ult(agg_get_obj_handle(m), write_parity, fault)

(* ----------------------------- local commit ---------------------------- *)
\* the loop of agg_remove_holdovers: one range-remove per hold-over extent,
\* of its original recx at its own epoch
RECURSIVE RemoveHoldovers(_, _, _)
RemoveHoldovers(m, exts, i) ==
  IF i > Len(exts) THEN m
  ELSE LET ext == exts[i]
           m1 == [m EXCEPT !.rep = RangeRemove(m.rep, ext.ae_orig_recx,
                                               ext.ae_epoch, ext.ae_epoch)]
       IN RemoveHoldovers(
            Log(m1, [op |-> "vos_remove", parity |-> FALSE, holdover |-> TRUE,
                     recx |-> ext.ae_orig_recx,
                     epr_lo |-> ext.ae_epoch, epr_hi |-> ext.ae_epoch]),
            exts, i + 1)

\* agg_remove_holdovers
agg_remove_holdovers(m) ==
  [m |-> RemoveHoldovers(m, m.st.as_hoextents, 1), rc |-> 0]

\* the else branch of agg_update_vos: one range-remove per extent whose
\* original recx ends inside the stripe
RECURSIVE RemoveEach(_, _, _)
RemoveEach(m, exts, i) ==
  IF i > Len(exts) THEN m
  ELSE LET ext == exts[i]
           se == ec_age2ss * (m.st.as_stripenum + 1)
       IN IF DAOS_RECX_END(ext.ae_orig_recx) <= se
          THEN RemoveEach(
                 Log([m EXCEPT !.rep = RangeRemove(m.rep, ext.ae_orig_recx,
                                                   ext.ae_epoch, ext.ae_epoch)],
                     [op |-> "vos_remove", parity |-> FALSE, holdover |-> FALSE,
                      recx |-> ext.ae_orig_recx,
                      epr_lo |-> ext.ae_epoch, epr_hi |-> ext.ae_epoch]),
                 exts, i + 1)
          ELSE RemoveEach(m, exts, i + 1)

\* the parity write of agg_update_vos
WriteParity(m) ==
  Log([m EXCEPT !.par = m.par \cup { [stripenum |-> m.st.as_stripenum,
                                      epoch |-> m.st.as_hi_epoch] }],
      [op |-> "vos_update", parity |-> TRUE,
       recx |-> Recx(m.st.as_stripenum * ec_age2cs, ec_age2cs),
       stripenum |-> m.st.as_stripenum, cell |-> ec_age2pidx,
       epoch |-> m.st.as_hi_epoch, data |-> m.pbuf])

\* the replica removal of agg_update_vos
RemoveReplicas(m) ==
  IF m.st.as_ho_ext_cnt = 0 /\ agg_contained(m)
  THEN LET recx == Recx(m.st.as_stripenum * ec_age2ss, ec_age2ss)
       IN Log([m EXCEPT !.rep = RangeRemove(m.rep, recx, ap_epr.epr_lo,
                                            ap_epr.epr_hi)],
              [op |-> "vos_remove", parity |-> FALSE, holdover |-> FALSE,
               recx |-> recx,
               epr_lo |-> ap_epr.epr_lo, epr_hi |-> ap_epr.epr_hi])
  ELSE RemoveEach(m, m.st.as_dextents, 1)

\* agg_update_vos as it would be if the parity were written whatever the
\* caller asks for
agg_update_vos_always(m, write_parity, fault) ==
  IF fault = "vos_update" THEN [m |-> m, rc |-> -1]
  ELSE [m |-> RemoveReplicas(WriteParity(m)), rc |-> 0]

\* agg_update_vos
agg_update_vos(m, write_parity, fault) ==
  IF write_parity /\ fault = "vos_update" THEN [m |-> m, rc |-> -1]
  ELSE [m |-> RemoveReplicas(IF write_parity THEN WriteParity(m) ELSE m),
        rc |-> 0]

(* ------------------------------ hole fill ------------------------------ *)
\* the first loop of agg_process_holes_ult: the ranges of the stripe that no
\* extent at or above the parity epoch covers; h: asu_recxs, last_ext_end,
\* valid_hole, and whether the loop has hit its break
HoleStep(h, extent, ape_epoch, ss, k, len) ==
  IF h.done \/ extent.ae_epoch < ape_epoch THEN h
  ELSE LET off == extent.ae_recx.rx_idx - ss
           gap == off > h.last_ext_end
           last == extent.ae_recx.rx_idx + extent.ae_recx.rx_nr - ss
       IN [h EXCEPT
             !.valid_hole = h.valid_hole \/ extent.ae_hole,
             !.asu_recxs = IF gap
                           THEN Append(h.asu_recxs,
                                       Recx(ss + h.last_ext_end,
                                            off - h.last_ext_end))
                           ELSE h.asu_recxs,
             !.last_ext_end = last,
             !.done = last >= k * len]

RECURSIVE HoleScan(_, _, _, _, _, _, _)
HoleScan(exts, i, h, ape_epoch, ss, k, len) ==
  IF i > Len(exts) THEN h
  ELSE HoleScan(exts, i + 1, HoleStep(h, exts[i], ape_epoch, ss, k, len),
                ape_epoch, ss, k, len)

\* the recx array agg_process_holes_ult hands back (asu_recxs[0..asu_cell_cnt))
HoleRecxs(exts, ape_epoch, stripenum, k, len) ==
  LET ss == stripenum * k * len
      h == HoleScan(exts, 1, [asu_recxs |-> << >>, last_ext_end |-> 0,
                              valid_hole |-> FALSE, done |-> FALSE],
                    ape_epoch, ss, k, len)
  IN IF ~h.valid_hole THEN << >>
     ELSE IF h.last_ext_end < k * len
     THEN Append(h.asu_recxs,
                 Recx(ss + h.last_ext_end, k * len - h.last_ext_end))
     ELSE h.asu_recxs

HoleValid(exts, ape_epoch) ==
  \E i \in 1..Len(exts) : exts[i].ae_hole /\ ~(exts[i].ae_epoch < ape_epoch)

\* the peer loop of agg_process_holes_ult: the failed-target check, then the
\* EC_REPLICATE request, peer by peer
RECURSIVE ReplicateLoop(_, _, _, _)
ReplicateLoop(m, peer, recxs, fault) ==
  IF peer >= ec_age2p THEN [m |-> m, rc |-> 0]
  ELSE IF peer = ec_age2pidx THEN ReplicateLoop(m, peer + 1, recxs, fault)
  ELSE IF m.pshards[peer] \in FailedRanks(fault) THEN [m |-> m, rc |-> -1]
  ELSE LET first == \A x \in Peers : peer <= x
           status == IF fault = "rpc" /\ first THEN -1 ELSE 0
           req == [op |-> "rpc", type |-> "EC_REPLICATE", peer |-> peer,
                   rank |-> m.pshards[peer],
                   tgt_down |-> TargetDown(peer, fault),
                   \* ec_rep_in->er_oid.id_shard--
                   shard |-> ec_age2shard - 1,
                   stripenum |-> m.st.as_stripenum,
                   epr_lo |-> m.st.as_hi_epoch, epr_hi |-> m.st.as_hi_epoch,
                   bulk |-> recxs # << >>,
                   parity |-> [src |-> "none", stripenum |-> 0, epoch |-> 0],
                   remove |-> << >>, recxs |-> recxs, status |-> status]
       IN IF status # 0 THEN [m |-> Log(m, req), rc |-> status]
          ELSE ReplicateLoop(Log(m, req), peer + 1, recxs, fault)

\* agg_process_holes_ult
agg_process_holes_ult(m, fault) ==
  LET Reply(r, recxs) == [m |-> r.m, rc |-> r.rc, asu_recxs |-> recxs]
      Ult(exts, recxs) ==
        IF ~HoleValid(exts, m.ape_epoch)
        THEN [m |-> m, rc |-> 0, asu_recxs |-> << >>]
        ELSE IF recxs # << >> /\ fault = "fetch"
        THEN [m |-> m, rc |-> -1, asu_recxs |-> recxs]
        ELSE IF ec_age2p < 2
        THEN [m |-> m, rc |-> 0, asu_recxs |-> recxs]
        ELSE Reply(ReplicateLoop(m, 0, recxs, fault), recxs)
  IN Ult(m.st.as_dextents,
         HoleRecxs(m.st.as_dextents, m.ape_epoch, m.st.as_stripenum,
                   ec_age2k, ec_age2cs))

\* the replicas agg_process_holes writes to the local store
HoleReplicas(recxs, epoch) ==
  { [rx_idx |-> recxs[i].rx_idx, rx_nr |-> recxs[i].rx_nr,
     epoch |-> epoch, hole |-> FALSE] : i \in 1..Len(recxs) }

\* whether agg_process_holes goes on to the local store after the ult: the
\* wait on the eventual succeeded; the status the ult reported is not read
HolesContinue(ult_rc) == TRUE

\* agg_process_holes
agg_process_holes(m, fault) ==
  LET Filled(u, m1) ==
        [m |-> Log([m1 EXCEPT
                      !.par = ParityRemove(m1.par, m.st.as_stripenum,
                                           ap_epr.epr_lo, m.st.as_hi_epoch)],
                   [op |-> "vos_remove", parity |-> TRUE, holdover |-> FALSE,
                    recx |-> Recx(m.st.as_stripenum * ec_age2cs, ec_age2cs),
                    epr_lo |-> ap_epr.epr_lo, epr_hi |-> m.st.as_hi_epoch]),
         rc |-> 0]
      Update(u) ==
        IF ~HolesContinue(u.rc) THEN [m |-> u.m, rc |-> u.rc]
        ELSE IF u.asu_recxs = << >> THEN [m |-> u.m, rc |-> 0]
        ELSE IF fault = "vos_update" THEN [m |-> u.m, rc |-> -1]
        ELSE Filled(u, Log([u.m EXCEPT
                              !.rep = u.m.rep \cup
                                        HoleReplicas(u.asu_recxs,
                                                     m.st.as_hi_epoch)],
                           [op |-> "vos_update", parity |-> FALSE,
                            recxs |-> u.asu_recxs,
                            epoch |-> m.st.as_hi_epoch,
                            fetched |-> fault # "fetch"]))
  \* D_ALLOC_ARRAY(stripe_ud.asu_recxs) fails: rc = -DER_NOMEM, goto out
  IN IF fault = "nomem" THEN [m |-> m, rc |-> -1]
     ELSE Update(agg_process_holes_ult(agg_get_obj_handle(m), fault))

(* --------------------------- agg_process_stripe ------------------------ *)
\* the branches as they would be if the test for missing parity came before
\* the test for a full stripe
Branch_noop_first(m) ==
  IF ec_age_with_parity(m) /\ ec_age_parity_higher(m) THEN "drop"
  ELSE IF ~ec_age_with_parity(m) THEN "noop"
  ELSE IF ec_age_stripe_full(m, ec_age_with_parity(m)) THEN "full"
  ELSE IF ec_age_with_hole(m) THEN "hole"
  ELSE "partial"

\* the branch agg_process_stripe takes once the parity has been probed
Branch(m) ==
  IF ec_age_with_parity(m) /\ ec_age_parity_higher(m) THEN "drop"
  ELSE IF ec_age_stripe_full(m, ec_age_with_parity(m)) THEN "full"
  ELSE IF ~ec_age_with_parity(m) THEN "noop"
  ELSE IF ec_age_with_hole(m) THEN "hole"
  ELSE "partial"

\* lines 1877-1895: hole processing, or the peer update followed by the
\* update of the local store
Commit(m, branch, rc, fault) ==
  LET Local(r1) ==
        IF r1.rc = 0 /\ ~r1.m.abort
        THEN agg_update_vos(r1.m, branch # "drop", fault)
        ELSE r1
  IN IF branch = "hole" /\ rc = 0 THEN agg_process_holes(m, fault)
     ELSE IF branch # "noop" /\ rc = 0
     THEN Local(IF ec_age2p > 1
                THEN agg_peer_update(m, branch # "drop", fault)
                ELSE [m |-> m, rc |-> 0])
     ELSE [m |-> m, rc |-> rc]

\* lines 1896-1914: the hold-over extents of the stripe before
Holdovers(m, branch, rc, fault) ==
  LET Local(r1) ==
        IF r1.rc = 0 /\ ~r1.m.abort THEN agg_remove_holdovers(r1.m)
        ELSE r1
  IN IF rc = 0 /\ m.st.as_ho_ext_cnt # 0 /\ ~m.abort
     THEN Local(IF ec_age2p > 1 /\ branch = "noop"
                THEN agg_peer_update(m, FALSE, fault)
                ELSE [m |-> m, rc |-> 0])
     ELSE [m |-> m, rc |-> rc]

\* the parity epoch of the probe before left as it is
ec_age_set_no_parity_kept(m) == m

\* ec_age_set_no_parity
ec_age_set_no_parity(m) == [m EXCEPT !.ape_epoch = EC_AGE_EPOCH_NO_PARITY]

\* the probe of agg_process_stripe: vos_iterate over the parity recx of the
\* stripe calls agg_recx_iter_pre_cb on the visible parity extent, which
\* stores its epoch; without such an extent the callback is not called
ProbeParity(m) ==
  IF ParityEpochs(m.par, m.st.as_stripenum) = {} THEN m
  ELSE [m EXCEPT !.ape_epoch = VisibleParity(m.par, m.st.as_stripenum)]

\* agg_process_stripe; the result carries the record of the call
agg_process_stripe(m0, fault) ==
  LET Return(m, probed, branch, r3, m4) ==
        [m |-> m4, rc |-> r3.rc,
         call |-> [stripenum |-> m.st.as_stripenum, branch |-> branch,
                   rc |-> r3.rc, fault |-> fault,
                   ape_epoch |-> probed.ape_epoch,
                   st |-> m.st, after |-> m4.st, abort |-> m4.abort,
                   hdl |-> m.obj_hdl,
                   pre |-> [rep |-> m.rep, par |-> m.par],
                   post |-> [rep |-> m4.rep, par |-> m4.par],
                   ev |-> r3.m.ev]]
      Clear(m, probed, branch, r3) ==
        Return(m, probed, branch, r3,
               IF r3.m.abort THEN r3.m ELSE agg_clear_extents(r3.m))
      HeldOver(m, probed, branch, r2) ==
        Clear(m, probed, branch,
              IF r2.m.abort THEN r2
              ELSE Holdovers(r2.m, branch, r2.rc, fault))
      Committed(m, probed, branch, r1) ==
        HeldOver(m, probed, branch,
                 IF r1.m.abort THEN r1
                 ELSE Commit(r1.m, branch, r1.rc, fault))
      Prepared(m, probed, branch) ==
        Committed(m, probed, branch,
                  IF branch = "none" THEN [m |-> probed, rc |-> -1]
                  ELSE IF branch = "full"
                  THEN agg_encode_local_parity(probed, fault)
                  ELSE IF branch = "partial"
                  THEN agg_process_partial_stripe(probed, fault)
                  ELSE [m |-> probed, rc |-> 0])
      Classified(m, probed) ==
        Prepared(m, probed,
                 IF fault = "probe" THEN "none" ELSE Branch(probed))
      Probed(m) ==
        Classified(m, IF fault = "probe" THEN ec_age_set_no_parity(m)
                      ELSE ProbeParity(ec_age_set_no_parity(m)))
  IN Probed([m0 EXCEPT !.ev = << >>])

(* ----------------------- iterator callbacks ---------------------------- *)
\* the state the operators above work on: the entry, the local store, the
\* events of the current agg_process_stripe call, and whether a D_ASSERT failed
Machine(e, v) ==
  [st |-> e.st, ape_epoch |-> e.ape_epoch, obj_hdl |-> e.obj_hdl,
   pshards |-> e.pshards, pbuf |-> e.pbuf, lost |-> e.lost,
   rep |-> v.rep, par |-> v.par, ev |-> << >>, abort |-> FALSE]

EntryOf(m) ==
  [st |-> m.st, ape_epoch |-> m.ape_epoch, obj_hdl |-> m.obj_hdl,
   pshards |-> m.pshards, pbuf |-> m.pbuf, lost |-> m.lost]

VosOf(m) == [rep |-> m.rep, par |-> m.par]

\* agg_data_extent as it would be if as_hi_epoch were set to the epoch of the
\* extent that is appended
AddExtent_last_epoch(st, e) ==
  LET extent == [ae_recx |-> e.ie_recx, ae_orig_recx |-> e.ie_orig_recx,
                 ae_epoch |-> e.ie_epoch, ae_hole |-> e.ie_hole]
  IN [st EXCEPT
        !.as_dextents = Append(st.as_dextents, extent),
        !.as_offset = IF st.as_extent_cnt = 0
                      THEN e.ie_recx.rx_idx % ec_age2ss
                      ELSE st.as_offset,
        !.as_extent_cnt = st.as_extent_cnt + 1,
        !.as_has_holes = st.as_has_holes \/ e.ie_hole,
        !.as_stripe_fill = IF e.ie_hole THEN st.as_stripe_fill
                           ELSE st.as_stripe_fill + agg_in_stripe(e.ie_recx),
        !.as_hi_epoch = e.ie_epoch]

\* lines 1988-2018 of agg_data_extent: the extent is appended to the stripe
AddExtent(st, e) ==
  LET extent == [ae_recx |-> e.ie_recx, ae_orig_recx |-> e.ie_orig_recx,
                 ae_epoch |-> e.ie_epoch, ae_hole |-> e.ie_hole]
  IN [st EXCEPT
        !.as_dextents = Append(st.as_dextents, extent),
        !.as_offset = IF st.as_extent_cnt = 0
                      THEN e.ie_recx.rx_idx % ec_age2ss
                      ELSE st.as_offset,
        !.as_extent_cnt = st.as_extent_cnt + 1,
        !.as_has_holes = st.as_has_holes \/ e.ie_hole,
        !.as_stripe_fill = IF e.ie_hole THEN st.as_stripe_fill
                           ELSE st.as_stripe_fill + agg_in_stripe(e.ie_recx),
        !.as_hi_epoch = IF e.ie_epoch > st.as_hi_epoch THEN e.ie_epoch
                        ELSE st.as_hi_epoch]

\* whether agg_data_extent processes the current stripe before it takes e
DataExtentProcesses(m, e) ==
  agg_stripenum(e.ie_recx.rx_idx) # m.st.as_stripenum
    /\ m.st.as_extent_cnt # 0

\* the held-over stripe processed whenever the stripe number has advanced
DataExtentHeldOver_advanced(cur_stripenum, m, e) ==
  cur_stripenum < m.st.as_stripenum

\* whether agg_data_extent processes the held-over stripe too
DataExtentHeldOver(cur_stripenum, m, e) ==
  cur_stripenum < m.st.as_stripenum
    /\ m.st.as_stripenum < agg_stripenum(e.ie_recx.rx_idx)

\* agg_data_extent; calls: the records of its agg_process_stripe calls
agg_data_extent(m, e, f1, f2, f3) ==
  LET Calls(first, r1, second, r2) ==
        (IF first THEN << r1.call >> ELSE << >>)
          \o (IF second THEN << r2.call >> ELSE << >>)
      Take(m2, m3, calls) ==
        IF m2.abort THEN [m |-> m2, rc |-> 0, calls |-> calls]
        \* D_ALLOC_PTR(extent) fails: rc = -DER_NOMEM
        ELSE IF f3 = "nomem" THEN [m |-> m3, rc |-> -1, calls |-> calls]
        ELSE [m |-> [m3 EXCEPT !.st = AddExtent(m3.st, e)], rc |-> 0,
              calls |-> calls]
      Second(first, r1, second, r2) ==
        Take(r2.m,
             [r2.m EXCEPT !.st.as_stripenum = agg_stripenum(e.ie_recx.rx_idx)],
             Calls(first, r1, second, r2))
      HeldOver(first, r1, second) ==
        Second(first, r1, second,
               IF second THEN agg_process_stripe(r1.m, f2)
               ELSE [m |-> r1.m, rc |-> 0, call |-> << >>])
      First(first, r1) ==
        HeldOver(first, r1,
                 first /\ ~r1.m.abort
                   /\ DataExtentHeldOver(m.st.as_stripenum, r1.m, e))
      Entered(first) ==
        First(first, IF first THEN agg_process_stripe(m, f1)
                     ELSE [m |-> m, rc |-> 0, call |-> << >>])
  IN Entered(DataExtentProcesses(m, e))

\* lines 2058-2072 of agg_akey_post: hold-over extents left by the last
\* stripe are sent to the peers and removed from the local store
PostHoldovers(m0, fault) ==
  LET Return(m, r2) ==
        [m |-> r2.m, rc |-> 0,
         call |-> [stripenum |-> m.st.as_stripenum, branch |-> "akey_post",
                   rc |-> r2.rc, fault |-> fault, ape_epoch |-> m.ape_epoch,
                   st |-> m.st, after |-> r2.m.st, abort |-> r2.m.abort,
                   hdl |-> m.obj_hdl,
                   pre |-> [rep |-> m.rep, par |-> m.par],
                   post |-> [rep |-> r2.m.rep, par |-> r2.m.par],
                   ev |-> r2.m.ev]]
      Local(m, r1) ==
        Return(m, IF r1.rc = 0 /\ ~r1.m.abort THEN agg_remove_holdovers(r1.m)
                  ELSE r1)
      Peer(m) ==
        Local(m, IF ec_age2p > 1 THEN agg_peer_update(m, FALSE, fault)
                 ELSE [m |-> m, rc |-> 0])
  IN Peer([m0 EXCEPT !.ev = << >>])

\* agg_akey_post
agg_akey_post(m, f1, f2, f3) ==
  LET Calls(first, r1, second, r2, third, r3) ==
        (IF first THEN << r1.call >> ELSE << >>)
          \o (IF second THEN << r2.call >> ELSE << >>)
          \o (IF third THEN << r3.call >> ELSE << >>)
      Reset(first, m3, calls) ==
        \* D_ASSERT(agg_entry->ae_cur_stripe.as_ho_ext_cnt == 0)
        IF m3.abort \/ ~(first => m3.st.as_ho_ext_cnt = 0)
        THEN [m |-> [m3 EXCEPT !.abort = TRUE], rc |-> 0, calls |-> calls]
        ELSE IF ~first THEN [m |-> m, rc |-> 0, calls |-> calls]
        ELSE [m |-> [m3 EXCEPT !.st.as_stripenum = 0, !.st.as_hi_epoch = 0,
                               !.st.as_stripe_fill = 0, !.st.as_offset = 0],
              rc |-> 0, calls |-> calls]
      Third(first, r1, second, r2, third, r3) ==
        Reset(first, r3.m, Calls(first, r1, second, r2, third, r3))
      Left(first, r1, second, r2, third) ==
        Third(first, r1, second, r2, third,
              IF third THEN PostHoldovers(r2.m, f3)
              ELSE [m |-> r2.m, rc |-> 0, call |-> << >>])
      Second(first, r1, second, r2) ==
        Left(first, r1, second, r2,
             first /\ ~r2.m.abort /\ r2.m.st.as_ho_ext_cnt # 0)
      HeldOver(first, r1, second) ==
        Second(first, r1, second,
               IF second THEN agg_process_stripe(r1.m, f2)
               ELSE [m |-> r1.m, rc |-> 0, call |-> << >>])
      First(first, r1) ==
        HeldOver(first, r1,
                 first /\ ~r1.m.abort
                   /\ m.st.as_stripenum < r1.m.st.as_stripenum)
      Entered(first) ==
        First(first, IF first THEN agg_process_stripe(m, f1)
                     ELSE [m |-> m, rc |-> 0, call |-> << >>])
  IN Entered(m.st.as_extent_cnt # 0)

(* ------------------------------- the run ------------------------------- *)
ParityShards(c) == c.k..(c.k + c.p - 1)

\* the stripes that may hold parity before the run
ParityStripes == 0..((MaxIdx - 1) \div ec_age2ss)

Holes(rep) == { w \in rep : w.hole }

\* number of injected failures among the chosen ones
NFault(f) == IF f = "none" THEN 0 ELSE 1

\* the call records without the name of the failure
Quiet(calls) == [i \in 1..Len(calls) |-> [calls[i] EXCEPT !.fault = "none"]]

\* a failure is injected only where it changes what the callback does or
\* meets: r0 is the result of the callback without failure
Felt(r, r0) == r.m # r0.m \/ r.rc # r0.rc \/ Quiet(r.calls) # r0.calls

\* the traversal of the container above the akey is not followed: the run is
\* inside one akey of one object
NoTraversal == [level |-> "recx"]

\* the offloaded units of work are not followed step by step: a call of
\* agg_process_stripe is one step
NoOffload == [drv |-> "none"]

Init ==
  /\ pc = "setup"
  /\ oca \in Classes
  /\ shard \in ParityShards(oca)
  /\ vos = [rep |-> {}, par |-> {}]
  /\ iter = << >>
  /\ pos = 1
  /\ entry = [st |-> EmptyStripe, ape_epoch |-> 0, obj_hdl |-> FALSE,
              pshards |-> NoPeerShards,
              pbuf |-> [src |-> "none", stripenum |-> 0, epoch |-> 0],
              lost |-> << >>]
  /\ hist = << >>
  /\ nfaults = 0
  /\ rc_run = 0
  /\ ap_epr = [epr_lo |-> 0, epr_hi |-> MaxEpoch]
  /\ is_current = FALSE
  /\ sc_ec_agg_eph = 0
  /\ runs = << >>
  /\ trav = NoTraversal
  /\ ult = NoOffload

\* a client writes (or punches) an array extent of the akey before the run
ClientWrite ==
  /\ pc = "setup"
  /\ Cardinality(vos.rep) < MaxWrites
  /\ \E w \in Writes :
       /\ w \notin vos.rep
       /\ \A v \in vos.rep : Overlap(v, w) => v.epoch # w.epoch
       /\ Cardinality(Holes(vos.rep \cup {w})) <= MaxHoles
       /\ vos' = [vos EXCEPT !.rep = vos.rep \cup {w}]
  /\ UNCHANGED << pc, oca, shard, iter, pos, entry, hist, nfaults, rc_run,
                  ap_epr, is_current, sc_ec_agg_eph,
                  runs, trav, ult >>

\* an earlier run left parity for a stripe
PriorParity ==
  /\ pc = "setup"
  /\ Cardinality(vos.par) < MaxParity
  /\ \E s \in ParityStripes, ep \in 1..MaxEpoch :
       /\ ParityEpochs(vos.par, s) = {}
       /\ vos' = [vos EXCEPT !.par = vos.par \cup
                                      { [stripenum |-> s, epoch |-> ep] }]
  /\ UNCHANGED << pc, oca, shard, iter, pos, entry, hist, nfaults, rc_run,
                  ap_epr, is_current, sc_ec_agg_eph,
                  runs, trav, ult >>

\* ds_obj_ec_aggregate starts the traversal; the object, dkey and akey are
\* entered and the recx iterator is positioned on the first visible extent
Begin ==
  /\ pc = "setup"
  /\ vos.rep # {}
  /\ iter' = VisibleExtents(vos.rep)
  /\ pos' = 1
  /\ pc' = "recx"
  /\ UNCHANGED << oca, shard, vos, entry, hist, nfaults, rc_run, ap_epr,
                  is_current, sc_ec_agg_eph,
                  runs, trav, ult >>

\* agg_iterate_pre_cb(VOS_ITER_RECX): agg_data_extent on the next entry,
\* under the failures F of its agg_process_stripe calls
RecxPreUnder(F) ==
  /\ pc = "recx"
  /\ pos <= Len(iter)
  /\ \E f1 \in F, f2 \in F, f3 \in { "none", "nomem" } :
       /\ NFault(f1) + NFault(f2) + NFault(f3) + nfaults <= MaxFaults
       /\ \E r \in { agg_data_extent(Machine(entry, vos), iter[pos],
                                     f1, f2, f3) } :
            /\ (f1 # "none" => Len(r.calls) >= 1)
            /\ (f2 # "none" => Len(r.calls) >= 2)
            /\ (f1 # "none" \/ f2 # "none" \/ f3 # "none"
                  => Felt(r, agg_data_extent(Machine(entry, vos), iter[pos],
                                             "none", "none", "none")))
            /\ entry' = EntryOf(r.m)
            /\ vos' = VosOf(r.m)
            /\ hist' = hist \o r.calls
            /\ nfaults' = nfaults + NFault(f1) + NFault(f2) + NFault(f3)
            \* a callback that returns an error ends vos_iterate with it
            /\ rc_run' = r.rc
            /\ pc' = IF r.m.abort THEN "crashed"
                     ELSE IF r.rc # 0 THEN "end"
                     ELSE IF pos = Len(iter) THEN "akey_post" ELSE "recx"
            /\ pos' = pos + 1
  /\ UNCHANGED << oca, shard, iter, ap_epr, is_current, sc_ec_agg_eph,
                  runs, trav, ult >>

RecxPre == RecxPreUnder(Faults)

\* agg_iterate_post_cb(VOS_ITER_AKEY): agg_akey_post; the iteration ends
AkeyPostUnder(F) ==
  /\ pc = "akey_post"
  /\ \E f1 \in F, f2 \in F, f3 \in F :
       /\ NFault(f1) + NFault(f2) + NFault(f3) + nfaults <= MaxFaults
       /\ \E r \in { agg_akey_post(Machine(entry, vos), f1, f2, f3) } :
            /\ (f1 # "none" \/ f2 # "none" \/ f3 # "none"
                  => Felt(r, agg_akey_post(Machine(entry, vos),
                                           "none", "none", "none")))
            /\ (f1 # "none" => Len(r.calls) >= 1)
            /\ (f2 # "none" => Len(r.calls) >= 2
                                 /\ r.calls[2].branch # "akey_post")
            /\ (f3 # "none" => Len(r.calls) >= 2
                                 /\ r.calls[Len(r.calls)].branch = "akey_post")
            /\ entry' = EntryOf(r.m)
            /\ vos' = VosOf(r.m)
            /\ hist' = hist \o r.calls
            /\ nfaults' = nfaults + NFault(f1) + NFault(f2) + NFault(f3)
            /\ rc_run' = r.rc
            /\ pc' = IF r.m.abort THEN "crashed" ELSE "end"
  /\ UNCHANGED << oca, shard, iter, pos, ap_epr, is_current, sc_ec_agg_eph,
                  runs, trav, ult >>

AkeyPost == AkeyPostUnder(Faults)

\* the watermark advanced whatever is_current says
AggregateEnd_always ==
  /\ pc = "end"
  /\ \E cur \in BOOLEAN :
       /\ is_current' = cur
       /\ sc_ec_agg_eph' = IF rc_run = 0 THEN ap_epr.epr_hi
                           ELSE sc_ec_agg_eph
  /\ pc' = "done"
  /\ runs' = Append(runs, vos)
  /\ UNCHANGED << oca, shard, vos, iter, pos, entry, hist, nfaults, rc_run,
                  ap_epr, trav, ult >>

\* the end of ds_obj_ec_aggregate: the watermark
AggregateEnd ==
  /\ pc = "end"
  /\ \E cur \in BOOLEAN :
       /\ is_current' = cur
       /\ sc_ec_agg_eph' = IF rc_run = 0 /\ cur THEN ap_epr.epr_hi
                           ELSE sc_ec_agg_eph
  /\ pc' = "done"
  /\ runs' = Append(runs, vos)
  /\ UNCHANGED << oca, shard, vos, iter, pos, entry, hist, nfaults, rc_run,
                  ap_epr, trav, ult >>

Next == ClientWrite \/ PriorParity \/ Begin \/ RecxPre \/ AkeyPost
          \/ AggregateEnd

Spec == Init /\ [][Next]_vars

(* ------------------------------ properties ----------------------------- *)
\* the agg_process_stripe calls of the run so far
StripeCalls == { i \in 1..Len(hist) : hist[i].branch # "akey_post" }

StripeStart(sn) == sn * ec_age2ss
StripeEnd(sn) == (sn + 1) * ec_age2ss

\* the visible replica extents of a store that have records in stripe sn
ReplicasOf(rep, sn) ==
  LET v == VisibleExtents(rep)
  IN { v[i] : i \in { j \in 1..Len(v) :
                        /\ v[j].ie_recx.rx_idx < StripeEnd(sn)
                        /\ DAOS_RECX_END(v[j].ie_recx) > StripeStart(sn) } }

\* those whose original recx lies inside stripe sn
ContainedOf(rep, sn) ==
  { e \in ReplicasOf(rep, sn) :
      /\ e.ie_orig_recx.rx_idx >= StripeStart(sn)
      /\ DAOS_RECX_END(e.ie_orig_recx) <= StripeEnd(sn) }

EpochsOf(exts) == { e.ie_epoch : e \in exts }

\* state (a) of a stripe after a call: parity at or above the epochs of the
\* replicas the stripe had, and no replica contained in the stripe is left
ParityState(c) ==
  /\ ParityEpochs(c.post.par, c.stripenum) # {}
  /\ \A ep \in EpochsOf(ReplicasOf(c.pre.rep, c.stripenum)) :
       VisibleParity(c.post.par, c.stripenum) >= ep
  /\ ContainedOf(c.post.rep, c.stripenum) = {}

\* state (b): replicas are left and no parity of the stripe is newer than one
ReplicaState(c) ==
  /\ ReplicasOf(c.post.rep, c.stripenum) # {}
  /\ \A ep \in ParityEpochs(c.post.par, c.stripenum) :
       \A e \in ReplicasOf(c.post.rep, c.stripenum) : ep <= e.ie_epoch

\* C1: after agg_process_stripe returns success for a stripe, the local store
\* either holds parity for the stripe at or above the epochs of its replicas
\* and no replica contained in the stripe, or it holds replicas of the stripe
\* and no parity of the stripe that is newer than they are.
C1_StripeOutcome ==
  \A i \in StripeCalls :
     hist[i].rc = 0 => ParityState(hist[i]) \/ ReplicaState(hist[i])

\* the events of a call
Ev(c) == { c.ev[j] : j \in 1..Len(c.ev) }

Rpcs(c, type) == { e \in Ev(c) : e.op = "rpc" /\ e.type = type }

ParityWrites(c) == { e \in Ev(c) : e.op = "vos_update" /\ e.parity }

ReplicaWrites(c) == { e \in Ev(c) : e.op = "vos_update" /\ ~e.parity }

ParityRemovals(c) == { e \in Ev(c) : e.op = "vos_remove" /\ e.parity }

ReplicaRemovals(c) == { e \in Ev(c) : e.op = "vos_remove" /\ ~e.parity }

\* the recxs a request asks the peer to remove
Listed(e) == { e.remove[j].recx : j \in 1..Len(e.remove) }

\* the extents a stripe was assembled from
Assembled(c) == { c.st.as_dextents[j] : j \in 1..Len(c.st.as_dextents) }

\* C2: when an extent of a processed stripe crosses into the next stripe, the
\* part from the stripe boundary on is in the data-extent list afterwards,
\* with the epoch, the original recx and the end offset of the extent.
C2_CarryOverSeed ==
  \A i \in StripeCalls :
     ~hist[i].abort =>
       \A x \in Assembled(hist[i]) :
          agg_carry_over(x) # 0 =>
            \E n \in 1..Len(hist[i].after.as_dextents) :
               LET y == hist[i].after.as_dextents[n]
               IN /\ y.ae_epoch = x.ae_epoch
                  /\ y.ae_orig_recx = x.ae_orig_recx
                  /\ y.ae_recx.rx_idx = StripeEnd(hist[i].stripenum)
                  /\ DAOS_RECX_END(y.ae_recx) = DAOS_RECX_END(x.ae_recx)

\* C3: when the run has returned and the processing of some stripe returned
\* an error, or the traversal did, the watermark is what it was before.
C3_WatermarkOnlyOnSuccess ==
  (pc = "done" /\ (rc_run # 0 \/ \E i \in StripeCalls : hist[i].rc # 0))
    => sc_ec_agg_eph = 0

\* C4: in the drop, full-encode and partial branches with more than one
\* parity shard, no request goes to a peer while a peer target is failed, and
\* when the failed-target check or a request fails the local store is as it
\* was before the call.
C4_PeerFailureNoCommit ==
  \A i \in StripeCalls :
     (hist[i].branch \in { "drop", "full", "partial" } /\ ec_age2p > 1) =>
       /\ (hist[i].fault = "tgt_failed" =>
             { e \in Ev(hist[i]) : e.op = "rpc" } = {})
       /\ (hist[i].fault \in { "tgt_failed", "rpc" } =>
             hist[i].post = hist[i].pre)

\* C5: in the hole-fill branch, when the fetch of the valid ranges fails, a
\* peer target is failed or an EC_REPLICATE request fails, no replica is
\* written to the local store and the parity of the stripe is not removed.
C5_HoleFailureNoCommit ==
  \A i \in StripeCalls :
     (hist[i].branch = "hole"
        /\ hist[i].fault \in { "fetch", "tgt_failed", "rpc" }) =>
       /\ ReplicaWrites(hist[i]) = {}
       /\ ParityRemovals(hist[i]) = {}

\* C6: no local range-remove of replicas and no removal list sent to a peer
\* for a stripe names a recx that extends past the end of that stripe.
C6_RemovalContained ==
  \A i \in StripeCalls :
     /\ \A e \in ReplicaRemovals(hist[i]) :
          DAOS_RECX_END(e.recx) <= StripeEnd(hist[i].stripenum)
     /\ \A e \in Rpcs(hist[i], "EC_AGGREGATE") :
          \A recx \in Listed(e) :
             DAOS_RECX_END(recx) <= StripeEnd(hist[i].stripenum)

\* a range-remove e of the local store takes the extent x away
Removes(e, x) ==
  /\ e.recx.rx_idx <= x.ae_orig_recx.rx_idx
  /\ DAOS_RECX_END(x.ae_orig_recx) <= DAOS_RECX_END(e.recx)
  /\ e.epr_lo <= x.ae_epoch /\ x.ae_epoch <= e.epr_hi

\* C7: the no-op branch writes no parity, removes no replica extent of the
\* stripe from the local store, and no request to a peer lists a replica
\* extent of the stripe for removal.
C7_NoOpLeavesReplicas ==
  \A i \in StripeCalls :
     hist[i].branch = "noop" =>
       /\ ParityWrites(hist[i]) = {}
       /\ \A e \in ReplicaRemovals(hist[i]) :
            \A x \in Assembled(hist[i]) : ~Removes(e, x)
       /\ \A e \in Rpcs(hist[i], "EC_AGGREGATE") :
            \A x \in Assembled(hist[i]) : x.ae_orig_recx \notin Listed(e)

\* the action the table of the stripe processor gives a stripe, from the
\* parity the store holds for it and from what the assembler has gathered
TableAction(c) ==
  LET has_parity == ParityEpochs(c.pre.par, c.stripenum) # {}
      parity_epoch == VisibleParity(c.pre.par, c.stripenum)
  IN IF has_parity /\ parity_epoch >= c.st.as_hi_epoch THEN "drop"
     ELSE IF c.st.as_stripe_fill = ec_age2ss
               /\ (~has_parity
                   \/ \A x \in Assembled(c) : x.ae_epoch > parity_epoch)
     THEN "full"
     ELSE IF ~has_parity THEN "noop"
     ELSE IF c.st.as_has_holes THEN "hole"
     ELSE "partial"

AssembledContained(c) ==
  { x \in Assembled(c) :
      /\ x.ae_orig_recx.rx_idx >= StripeStart(c.stripenum)
      /\ DAOS_RECX_END(x.ae_orig_recx) <= StripeEnd(c.stripenum) }

\* C9: the drop branch writes no parity locally and sends no parity bulk;
\* when it succeeds, the extents of the stripe that are contained in it are
\* gone from the local store, and every peer parity shard has got an
\* EC_AGGREGATE request for the stripe that asks for their removal (by the
\* stripe alone, or by a removal list that names them).
C9_DropRemovesReplicas ==
  \A i \in StripeCalls :
     hist[i].branch = "drop" =>
       /\ ParityWrites(hist[i]) = {}
       /\ \A e \in Rpcs(hist[i], "EC_AGGREGATE") : ~e.bulk
       /\ hist[i].rc = 0 =>
            /\ \A x \in AssembledContained(hist[i]) :
                  \E e \in ReplicaRemovals(hist[i]) : Removes(e, x)
            /\ \A peer \in Peers :
                  \E e \in Rpcs(hist[i], "EC_AGGREGATE") :
                     /\ e.peer = peer /\ e.status = 0
                     /\ e.stripenum = hist[i].stripenum
                     /\ (e.remove # << >> =>
                           \A x \in AssembledContained(hist[i]) :
                              x.ae_orig_recx \in Listed(e))

\* a drop with a peer parity shard has removed a contained replica extent
C9_Witness ==
  \E i \in StripeCalls :
     /\ hist[i].branch = "drop" /\ hist[i].rc = 0 /\ ec_age2p > 1
     /\ AssembledContained(hist[i]) # {}
     /\ ReplicaRemovals(hist[i]) # {}

\* C10: when hole-fill succeeds, every peer parity shard has got an
\* EC_REPLICATE request, the parity of the stripe has been range-removed
\* from the local store, and what has been written locally are replicas at
\* hi_epoch.
C10_HoleFillOutcome ==
  \A i \in StripeCalls :
     (hist[i].branch = "hole" /\ hist[i].rc = 0 /\ hist[i].fault = "none") =>
       /\ \A peer \in Peers :
             \E e \in Rpcs(hist[i], "EC_REPLICATE") : e.peer = peer
       /\ \E e \in ParityRemovals(hist[i]) :
             /\ e.recx = Recx(hist[i].stripenum * ec_age2cs, ec_age2cs)
             /\ e.epr_lo <= hist[i].ape_epoch
             /\ hist[i].ape_epoch <= e.epr_hi
       /\ \A e \in ReplicaWrites(hist[i]) : e.epoch = hist[i].st.as_hi_epoch

(* ------------------------- longer arrays, no failure ------------------- *)
\* The same run over an array that reaches further: replica extents start at
\* records 0..WideIdx-1 and hold 1..WideLen records, the cells hold two
\* records, and no failure is injected.
WideWrites == { [rx_idx |-> i, rx_nr |-> n, epoch |-> ep, hole |-> h] :
                  i \in 0..(WideIdx - 1), n \in 1..WideLen,
                  ep \in 1..MaxEpoch, h \in BOOLEAN }

WideStripes == 0..((WideIdx + WideLen - 2) \div ec_age2ss)

WideInit ==
  /\ pc = "setup"
  /\ oca = [k |-> 2, p |-> 2, len |-> 2]
  /\ shard \in ParityShards(oca)
  /\ vos = [rep |-> {}, par |-> {}]
  /\ iter = << >>
  /\ pos = 1
  /\ entry = [st |-> EmptyStripe, ape_epoch |-> 0, obj_hdl |-> FALSE,
              pshards |-> NoPeerShards,
              pbuf |-> [src |-> "none", stripenum |-> 0, epoch |-> 0],
              lost |-> << >>]
  /\ hist = << >>
  /\ nfaults = MaxFaults
  /\ rc_run = 0
  /\ ap_epr = [epr_lo |-> 0, epr_hi |-> MaxEpoch]
  /\ is_current = FALSE
  /\ sc_ec_agg_eph = 0
  /\ runs = << >>
  /\ trav = NoTraversal
  /\ ult = NoOffload

WideWrite ==
  /\ pc = "setup"
  /\ Cardinality(vos.rep) < MaxWrites
  /\ \E w \in WideWrites :
       /\ w \notin vos.rep
       /\ \A v \in vos.rep : Overlap(v, w) => v.epoch # w.epoch
       /\ Cardinality(Holes(vos.rep \cup {w})) <= MaxHoles
       /\ vos' = [vos EXCEPT !.rep = vos.rep \cup {w}]
  /\ UNCHANGED << pc, oca, shard, iter, pos, entry, hist, nfaults, rc_run,
                  ap_epr, is_current, sc_ec_agg_eph,
                  runs, trav, ult >>

WideParity ==
  /\ pc = "setup"
  /\ Cardinality(vos.par) < MaxParity
  /\ \E s \in WideStripes, ep \in 1..MaxEpoch :
       /\ ParityEpochs(vos.par, s) = {}
       /\ vos' = [vos EXCEPT !.par = vos.par \cup
                                      { [stripenum |-> s, epoch |-> ep] }]
  /\ UNCHANGED << pc, oca, shard, iter, pos, entry, hist, nfaults, rc_run,
                  ap_epr, is_current, sc_ec_agg_eph,
                  runs, trav, ult >>

WideNext == WideWrite \/ WideParity \/ Begin \/ RecxPre \/ AkeyPost
              \/ AggregateEnd

WideSpec == WideInit /\ [][WideNext]_vars

\* The same run over one stripe of three cells of three records that holds up
\* to CellExtents replica extents, no hole among them; no failure is injected.
CellWrites == { [rx_idx |-> i, rx_nr |-> n, epoch |-> ep, hole |-> FALSE] :
                  i \in 0..(CellIdx - 1), n \in 1..CellLen,
                  ep \in 1..MaxEpoch }

CellStripes == 0..((CellIdx + CellLen - 2) \div ec_age2ss)

CellInit ==
  /\ pc = "setup"
  /\ oca = [k |-> 3, p |-> 1, len |-> 3]
  /\ shard \in ParityShards(oca)
  /\ vos = [rep |-> {}, par |-> {}]
  /\ iter = << >>
  /\ pos = 1
  /\ entry = [st |-> EmptyStripe, ape_epoch |-> 0, obj_hdl |-> FALSE,
              pshards |-> NoPeerShards,
              pbuf |-> [src |-> "none", stripenum |-> 0, epoch |-> 0],
              lost |-> << >>]
  /\ hist = << >>
  /\ nfaults = MaxFaults
  /\ rc_run = 0
  /\ ap_epr = [epr_lo |-> 0, epr_hi |-> MaxEpoch]
  /\ is_current = FALSE
  /\ sc_ec_agg_eph = 0
  /\ runs = << >>
  /\ trav = NoTraversal
  /\ ult = NoOffload

CellWrite ==
  /\ pc = "setup"
  /\ Cardinality(vos.rep) < CellExtents
  /\ \E w \in CellWrites :
       /\ w \notin vos.rep
       /\ \A v \in vos.rep : Overlap(v, w) => v.epoch # w.epoch
       /\ vos' = [vos EXCEPT !.rep = vos.rep \cup {w}]
  /\ UNCHANGED << pc, oca, shard, iter, pos, entry, hist, nfaults, rc_run,
                  ap_epr, is_current, sc_ec_agg_eph,
                  runs, trav, ult >>

CellParity ==
  /\ pc = "setup"
  /\ Cardinality(vos.par) < MaxParity
  /\ \E s \in CellStripes, ep \in 1..MaxEpoch :
       /\ ParityEpochs(vos.par, s) = {}
       /\ vos' = [vos EXCEPT !.par = vos.par \cup
                                      { [stripenum |-> s, epoch |-> ep] }]
  /\ UNCHANGED << pc, oca, shard, iter, pos, entry, hist, nfaults, rc_run,
                  ap_epr, is_current, sc_ec_agg_eph,
                  runs, trav, ult >>

CellNext == CellWrite \/ CellParity \/ Begin \/ RecxPre \/ AkeyPost
              \/ AggregateEnd

CellSpec == CellInit /\ [][CellNext]_vars

\* Successive runs over the same epoch range with no write between them; no
\* failure is injected.
TwiceInit ==
  /\ pc = "setup"
  /\ oca \in Classes
  /\ shard \in ParityShards(oca)
  /\ vos = [rep |-> {}, par |-> {}]
  /\ iter = << >>
  /\ pos = 1
  /\ entry = [st |-> EmptyStripe, ape_epoch |-> 0, obj_hdl |-> FALSE,
              pshards |-> NoPeerShards,
              pbuf |-> [src |-> "none", stripenum |-> 0, epoch |-> 0],
              lost |-> << >>]
  /\ hist = << >>
  /\ nfaults = MaxFaults
  /\ rc_run = 0
  /\ ap_epr = [epr_lo |-> 0, epr_hi |-> MaxEpoch]
  /\ is_current = FALSE
  /\ sc_ec_agg_eph = 0
  /\ runs = << >>
  /\ trav = NoTraversal
  /\ ult = NoOffload

\* ds_obj_ec_aggregate is called again: agg_param, the entry and the anchors
\* are new, the iterator delivers what the store holds now
Again ==
  /\ pc = "done"
  /\ Len(runs) < MaxRuns
  /\ iter' = VisibleExtents(vos.rep)
  /\ pos' = 1
  /\ entry' = [st |-> EmptyStripe, ape_epoch |-> 0, obj_hdl |-> FALSE,
               pshards |-> NoPeerShards,
               pbuf |-> [src |-> "none", stripenum |-> 0, epoch |-> 0],
               lost |-> << >>]
  /\ rc_run' = 0
  /\ pc' = IF vos.rep = {} THEN "end" ELSE "recx"
  /\ UNCHANGED << oca, shard, vos, hist, nfaults, ap_epr, is_current,
                  sc_ec_agg_eph, runs, trav, ult >>

TwiceNext == ClientWrite \/ PriorParity \/ Begin \/ RecxPre \/ AkeyPost
               \/ AggregateEnd \/ Again

TwiceSpec == TwiceInit /\ [][TwiceNext]_vars

(* ----------------------------- partial path ---------------------------- *)
\* the cells of 0..K-1
Cells == 0..(ec_age2k - 1)

\* the requests of a call for cells of the data shards, and of the local store
RemoteFetches(c) == { e \in Ev(c) : e.op = "fetch_odata" }

LocalFetches(c) == { e \in Ev(c) : e.op = "fetch_local" }

LocalCells(c) == UNION { e.cells : e \in LocalFetches(c) }

\* the records of stripe sn a visible replica extent covers
RecordsOf(e, sn) ==
  { r \in StripeStart(sn)..(StripeEnd(sn) - 1) :
      e.ie_recx.rx_idx <= r /\ r < DAOS_RECX_END(e.ie_recx) }

\* the cells of the stripe of call c that hold a record of a replica that is
\* newer than the parity
TouchedCells(c) ==
  { j \in Cells :
      \E e \in ReplicasOf(c.pre.rep, c.stripenum) :
         /\ ~e.ie_hole
         /\ e.ie_epoch > c.ape_epoch
         /\ \E r \in RecordsOf(e, c.stripenum) :
              (r - StripeStart(c.stripenum)) \div ec_age2cs = j }

\* some replica of the stripe is not newer than the parity
HasOldReplica(c) ==
  \E e \in ReplicasOf(c.pre.rep, c.stripenum) :
     ~e.ie_hole /\ e.ie_epoch <= c.ape_epoch

\* C11: in the partial path recalculation is chosen exactly when
\* full_cell_cnt >= K/2, or the touched cells are all K cells, or a replica of
\* the stripe is not newer than the parity; for recalculation the cells
\* fetched from the data shards are the complement of the cells fetched
\* locally, for the incremental update they are the touched cells.
C11_PartialSelection ==
  \A i \in StripeCalls :
     hist[i].branch = "partial" =>
       \A e \in RemoteFetches(hist[i]) :
          /\ e.recalc <=> \/ e.full_cell_cnt >= ec_age2k \div 2
                          \/ e.touched_cnt = ec_age2k
                          \/ HasOldReplica(hist[i])
          /\ e.recalc => e.cells = Cells \ LocalCells(hist[i])
          /\ ~e.recalc => /\ e.cells = TouchedCells(hist[i])
                          /\ LocalCells(hist[i]) = e.cells

(* ------------------------------ hold-overs ----------------------------- *)
\* the hold-over extents a call starts with
HoldoversOf(c) == { c.st.as_hoextents[j] : j \in 1..Len(c.st.as_hoextents) }

\* the (recx, epoch) pairs a request asks the peer to remove
ListedEntries(e) == { e.remove[j] : j \in 1..Len(e.remove) }

\* the hold-over extents a call removes, locally or on a peer
HeldRemoved(c) ==
  { h \in HoldoversOf(c) :
      \/ \E e \in ReplicaRemovals(c) :
            e.holdover /\ e.recx = h.ae_orig_recx /\ e.epr_lo = h.ae_epoch
      \/ \E e \in Rpcs(c, "EC_AGGREGATE") :
            /\ e.status = 0
            /\ [recx |-> h.ae_orig_recx, epoch |-> h.ae_epoch]
                 \in ListedEntries(e) }

\* the stripe in which the original recx of an extent ends
TerminalStripe(h) == agg_stripenum(DAOS_RECX_END(h.ae_orig_recx) - 1)

\* C12: a hold-over extent is removed, locally or on a peer, only when the
\* stripe in which its original recx ends has been processed with success,
\* by an earlier call or by the call that removes it.
C12_HoldoverAfterTerminal ==
  \A i \in 1..Len(hist) :
     \A h \in HeldRemoved(hist[i]) :
        \E j \in StripeCalls :
           /\ j <= i
           /\ hist[j].stripenum = TerminalStripe(h)
           /\ (hist[j].rc = 0 \/ j = i)

(* ----------------------------- stripe state ---------------------------- *)
\* the records of stripe sn the iterator delivers as replica data
DataRecords(sn) ==
  { r \in StripeStart(sn)..(StripeEnd(sn) - 1) :
      \E n \in 1..Len(iter) :
         /\ ~iter[n].ie_hole
         /\ iter[n].ie_recx.rx_idx <= r
         /\ r < DAOS_RECX_END(iter[n].ie_recx) }

\* C13: when a stripe is processed, as_stripe_fill is the number of records
\* of the stripe held by its non-hole replica extents (the extents, clipped
\* to the stripe, do not overlap), and it is at most K*L.
C13_StripeFill ==
  \A i \in StripeCalls :
     /\ hist[i].st.as_stripe_fill = Cardinality(DataRecords(hist[i].stripenum))
     /\ hist[i].st.as_stripe_fill <= ec_age2ss

\* the carried-over tails that lie in the current stripe
SeedingTails ==
  { entry.lost[j] : j \in { n \in 1..Len(entry.lost) :
      agg_stripenum(entry.lost[n].ae_recx.rx_idx) = entry.st.as_stripenum } }

\* C14: during the traversal as_hi_epoch is at least the epoch of every extent
\* of the current stripe: those of as_dextents and a carried-over tail that
\* seeds the stripe; it was so for every stripe that has been processed.
C14_HiEpoch ==
  pc \in { "recx", "akey_post" } =>
    /\ \A j \in 1..Len(entry.st.as_dextents) :
          entry.st.as_hi_epoch >= entry.st.as_dextents[j].ae_epoch
    /\ \A t \in SeedingTails : entry.st.as_hi_epoch >= t.ae_epoch
    /\ \A i \in StripeCalls :
          \A e \in Assembled(hist[i]) : hist[i].st.as_hi_epoch >= e.ae_epoch

\* a stripe seeded by a tail holds an extent of a lower epoch than the tail
C14_Witness ==
  /\ pc \in { "recx", "akey_post" }
  /\ \E t \in SeedingTails :
        \E j \in 1..Len(entry.st.as_dextents) :
           /\ entry.st.as_dextents[j].ae_epoch < t.ae_epoch
           /\ entry.st.as_hi_epoch = t.ae_epoch

(* --------------------------- parity on the peers ----------------------- *)
\* request e of call c hands peer the cell of its own parity index of the
\* buffer that local write w stores, for the stripe and epoch of the call
ShipsParity(c, e, w, peer) ==
  /\ e.peer = peer
  /\ e.shard = PeerShard(peer)
  /\ e.rank = RankOfShard(e.shard)
  /\ e.status = 0
  /\ e.bulk
  /\ e.cell = peer
  /\ e.stripenum = c.stripenum
  /\ e.epr_hi = c.st.as_hi_epoch
  /\ e.parity = w.data

Updates(c) == { e \in Ev(c) : e.op = "update_parity" }

\* the cells of S in ascending order
RECURSIVE Ascending(_)
Ascending(S) ==
  IF S = {} THEN << >>
  ELSE LET lo == CHOOSE x \in S : \A y \in S : x <= y
       IN << lo >> \o Ascending(S \ {lo})

\* C16: in an incremental parity update every touched cell index is used
\* exactly once: the i-th fetched pair of old and new cell is applied with the
\* coefficients of the i-th touched cell.
C16_UpdateUsesOwnCell ==
  \A n \in StripeCalls : \A u \in Updates(hist[n]) :
     /\ Len(u.applied) = Cardinality(u.cells)
     /\ \A i \in 1..Len(u.applied) :
          u.applied[i].cell = Ascending(u.cells)[i]

(* ---------------------------- cell accounting -------------------------- *)
\* the records of the stripe of call c that the extents of its list cover
ListedRecords(c) ==
  { r \in StripeStart(c.stripenum)..(StripeEnd(c.stripenum) - 1) :
      \E j \in 1..Len(c.st.as_dextents) :
         /\ c.st.as_dextents[j].ae_recx.rx_idx <= r
         /\ r < DAOS_RECX_END(c.st.as_dextents[j].ae_recx) }

\* the records of cell x of stripe sn
CellRecords(sn, x) ==
  (StripeStart(sn) + x * ec_age2cs)..(StripeStart(sn) + (x + 1) * ec_age2cs - 1)

\* the list of call c holds only extents newer than the parity, no hole
NewerList(c) ==
  \A j \in 1..Len(c.st.as_dextents) :
     /\ ~c.st.as_dextents[j].ae_hole
     /\ c.st.as_dextents[j].ae_epoch > c.ape_epoch

\* C17: over a list of non-hole extents newer than the parity, the cell
\* accounting marks a cell touched iff an extent covers one of its records
\* and full iff a contiguous run of extents covers all of them; the two
\* counts are the numbers of touched and of full cells.
C17_CellAccounting ==
  \A n \in StripeCalls : \A e \in RemoteFetches(hist[n]) :
     NewerList(hist[n]) =>
       /\ e.tbit_map = { x \in Cells :
                           CellRecords(hist[n].stripenum, x)
                             \cap ListedRecords(hist[n]) # {} }
       /\ e.fcbit_map = { x \in Cells :
                            CellRecords(hist[n].stripenum, x)
                              \subseteq ListedRecords(hist[n]) }
       /\ e.touched_cnt = Cardinality(e.tbit_map)
       /\ e.full_cell_cnt = Cardinality(e.fcbit_map)

(* ------------------------------ diff zeroing ---------------------------- *)
\* the offsets in cell x of the records of the stripe of call c that a
\* non-hole replica newer than the parity covers
NewerOffsets(c, x) ==
  { r - StripeStart(c.stripenum) - x * ec_age2cs :
      r \in { q \in CellRecords(c.stripenum, x) :
                \E e \in ReplicasOf(c.pre.rep, c.stripenum) :
                   /\ ~e.ie_hole
                   /\ e.ie_epoch > c.ape_epoch
                   /\ q \in RecordsOf(e, c.stripenum) } }

\* C18: agg_diff_preprocess for a touched cell zeroes every record of the
\* diff that no replica newer than the parity covers and leaves every record
\* that such a replica covers.
C18_DiffZeroed ==
  \A n \in StripeCalls : \A u \in Updates(hist[n]) :
     \A i \in 1..Len(u.applied) :
        u.applied[i].zeroed =
          (0..(ec_age2cs - 1)) \ NewerOffsets(hist[n], u.applied[i].cell)

(* ----------------------------- encode failure --------------------------- *)
\* C19: a stripe call whose full-stripe encode fails writes no parity, ships
\* none to the peers and removes no replica.
C19_EncodeFailureAborts ==
  \A n \in StripeCalls :
     (hist[n].branch = "full" /\ hist[n].fault = "encode") =>
       /\ ParityWrites(hist[n]) = {}
       /\ \A e \in Rpcs(hist[n], "EC_AGGREGATE") : ~e.bulk
       /\ ReplicaRemovals(hist[n]) = {}
       /\ hist[n].post = hist[n].pre

(* ------------------------------ stripe order ---------------------------- *)
\* C20: within the traversal of the akey successive calls of
\* agg_process_stripe work on strictly increasing stripe numbers.
C20_StripesAscend ==
  \A i, j \in StripeCalls : i < j => hist[i].stripenum < hist[j].stripenum

\* a run with three stripe calls, the second for the tail carried over from
\* the first
C20_Witness ==
  \E i, j, n \in StripeCalls :
     /\ i < j /\ j < n
     /\ hist[j].stripenum = hist[i].stripenum + 1
     /\ hist[j].st.as_extent_cnt = 0

(* --------------------------- order within a call ------------------------ *)
\* a modification of the local store
LocalMod(e) == e.op \in { "vos_update", "vos_remove" }

\* event a of call c is a request that asks the peer to remove recx
AsksRemoval(c, a, recx) == c.ev[a].op = "rpc" /\ recx \in Listed(c.ev[a])

\* C21: within one stripe call every request to a peer comes before the
\* first modification of the local store, the local parity write comes
\* before every local replica removal, no replica is removed when the
\* parity write fails, and with peers (P > 1) a replica extent is removed
\* locally only after a request has asked the peers to remove it.
C21_PeersParityRemoval ==
  \A n \in StripeCalls :
     /\ \A a, b \in 1..Len(hist[n].ev) :
          a < b =>
            /\ LocalMod(hist[n].ev[a]) => hist[n].ev[b].op # "rpc"
            /\ (hist[n].ev[a].op = "vos_remove" /\ ~hist[n].ev[a].parity)
                 => ~(hist[n].ev[b].op = "vos_update" /\ hist[n].ev[b].parity)
     /\ (hist[n].fault = "vos_update"
           /\ hist[n].branch \in { "full", "partial" })
          => /\ ReplicaRemovals(hist[n]) = {}
             /\ hist[n].post = hist[n].pre
     /\ ec_age2p > 1 =>
          \A b \in 1..Len(hist[n].ev) :
             (/\ hist[n].ev[b].op = "vos_remove"
              /\ ~hist[n].ev[b].parity
              /\ hist[n].ev[b].epr_lo = hist[n].ev[b].epr_hi)
               => \E a \in 1..(b - 1) :
                     AsksRemoval(hist[n], a, hist[n].ev[b].recx)

(* ------------------------------ idempotence ----------------------------- *)
\* C22: a second run over the same epoch range, with no write in between and
\* no failure, leaves the parity and replica extents of the local store as
\* the first run left them.
C22_SecondRunSameStore ==
  (Len(runs) >= 2 /\ rc_run = 0) => runs[2] = runs[1]

(* ------------------------- the container traversal --------------------- *)
\* ds_obj_ec_aggregate above the akey: vos_iterate delivers objects, dkeys,
\* akeys and record extents to agg_iterate_pre_cb and agg_iterate_post_cb.
\* The content of the container is drawn as the iterator reaches it. The
\* stripe machine is taken by its interface: a call of agg_process_stripe
\* returns 0, an error or needs-refresh, always empties the extent list and
\* moves as_stripenum on when an assembled extent crosses the stripe's end.
\* Return codes: 0, 1 (soft abort), -1 (error), -2 (needs refresh).

DriverClass == [k |-> 2, p |-> 1, len |-> 1]

NoObject == [oid |-> 0, ec |-> FALSE, leader |-> 0, id_shard |-> 0]
NoAkey == [key |-> 0, single |-> FALSE]
NoRecx == [stripe |-> 0, crosses |-> FALSE]

\* vos_iterate entered with zero anchors; agg_param after the setup
Traversal0 ==
  [level |-> "obj", phase |-> "fetch", again |-> FALSE,
   obj |-> NoObject, dkey |-> 0, akey |-> NoAkey, recx |-> NoRecx, nrecx |-> 0,
   reprobe |-> [obj |-> FALSE, dkey |-> FALSE, akey |-> FALSE],
   entries |-> 0,
   ae_oid |-> NoObject, ae_dkey |-> 0, ae_akey |-> 0,
   as_stripenum |-> 0, as_extent_cnt |-> 0, crossing |-> FALSE,
   ap_credits |-> 0,
   calls |-> << >>, delivered |-> {}, strays |-> {},
   posts |-> 0, yields |-> << >>, yielded |-> FALSE, restarts |-> 0,
   aborted |-> FALSE]

\* the object entries the iterator can deliver after the object `last`: an
\* object without an EC class, an EC object this target does not lead (or
\* whose leader check fails), an EC object it leads on any of its shards
ObjEntries(last) ==
  { e \in [oid : (last.oid + 1)..MaxObjs, ec : BOOLEAN, leader : {1, 0, -1},
           id_shard : 0..(2 * (DriverClass.k + DriverClass.p) - 1)] :
      /\ ~e.ec => e.leader = 0
      /\ e.leader # 1 => e.id_shard = DriverClass.k }

AkeyEntries(last) ==
  { [key |-> a, single |-> s] : a \in (last.key + 1)..MaxKeys, s \in BOOLEAN }

\* visible record extents come in offset order and do not overlap
RecxEntries(t) ==
  { [stripe |-> s, crosses |-> c] :
      s \in (IF t.nrecx = 0 THEN 0
             ELSE t.recx.stripe + (IF t.recx.crosses THEN 1 ELSE 0))..MaxStripe,
      c \in BOOLEAN }

\* the D_ASSERT of ec_age2pidx
PidxAssert(oid) ==
  LET s == oid.id_shard % (DriverClass.k + DriverClass.p)
  IN  s >= DriverClass.k /\ s < DriverClass.k + DriverClass.p

ReturnCode(out) == IF out = "ok" THEN 0 ELSE IF out = "err" THEN -1 ELSE -2

\* one call of agg_process_stripe on the assembled stripe
StripeCall(t, out) ==
  LET c == [oid |-> t.ae_oid.oid, dkey |-> t.ae_dkey, akey |-> t.ae_akey,
            stripe |-> t.as_stripenum, out |-> out]
  IN  [t |-> [t EXCEPT !.calls = Append(@, c),
                       !.aborted = out = "ok" /\ ~PidxAssert(t.ae_oid),
                       !.as_extent_cnt = 0,
                       !.crossing = FALSE,
                       !.as_stripenum = IF t.crossing THEN @ + 1 ELSE @],
       rc |-> ReturnCode(out)]

NoCall(t) == [t |-> t, rc |-> 0]

\* agg_reset_entry
ResetEntry(t, e) ==
  [t EXCEPT !.ae_oid = e, !.ae_dkey = 0, !.ae_akey = 0,
            !.as_stripenum = 0, !.as_extent_cnt = 0]

\* agg_object
DrvObject(t, e) ==
  IF t.ae_oid.oid = e.oid /\ t.ae_oid.id_shard = e.id_shard
  THEN [t |-> t, rc |-> 0, skip |-> TRUE]
  ELSE IF ~e.ec THEN [t |-> t, rc |-> 0, skip |-> TRUE]
  ELSE IF e.leader = 1 /\ e.id_shard >= DriverClass.k
  THEN [t |-> ResetEntry(t, e), rc |-> 0, skip |-> FALSE]
  ELSE [t |-> t, rc |-> IF e.leader < 0 THEN 0 ELSE e.leader, skip |-> TRUE]

Path(t, dkey, akey) == [oid |-> t.obj.oid, dkey |-> dkey, akey |-> akey]

\* strays: the keys skipped that were not delivered before
Skipped(t, dkey, akey) ==
  IF Path(t, dkey, akey) \in t.delivered THEN t
  ELSE [t EXCEPT !.strays = @ \cup {Path(t, dkey, akey)}]

\* agg_dkey
DrvDkey(t, key) ==
  IF t.ae_dkey # key
  THEN [t |-> [t EXCEPT !.ae_dkey = key,
                        !.delivered = @ \cup {Path(t, key, 0)}],
        rc |-> 0, skip |-> FALSE]
  ELSE [t |-> Skipped(t, key, 0), rc |-> 0, skip |-> TRUE]

\* agg_akey
DrvAkey(t, e) ==
  IF e.single THEN [t |-> t, rc |-> 0, skip |-> TRUE]
  ELSE IF t.ae_akey # e.key
  THEN [t |-> [t EXCEPT !.ae_akey = e.key,
                        !.delivered = @ \cup {Path(t, t.dkey, e.key)}],
        rc |-> 0, skip |-> FALSE]
  ELSE [t |-> [Skipped(t, t.dkey, e.key) EXCEPT !.ae_akey = 0],
        rc |-> 0, skip |-> TRUE]

AddRecx(t, e) ==
  [t EXCEPT !.as_stripenum = e.stripe, !.as_extent_cnt = @ + 1,
            !.crossing = e.crosses]

HeldOverCall(cur, r, this) ==
  r.rc # -2 /\ ~r.t.aborted /\ cur < r.t.as_stripenum
    /\ r.t.as_stripenum < this

\* agg_data_extent
DrvDataExtent(t, e, o1, o2) ==
  LET flush == e.stripe # t.as_stripenum /\ t.as_extent_cnt # 0
      r1 == IF flush THEN StripeCall(t, o1) ELSE NoCall(t)
      r2 == IF flush /\ HeldOverCall(t.as_stripenum, r1, e.stripe)
            THEN StripeCall(r1.t, o2) ELSE NoCall(r1.t)
      rc == IF r1.rc = -2 \/ r2.rc = -2 THEN -2 ELSE 0
  IN  IF rc # 0 \/ r2.t.aborted THEN [t |-> r2.t, rc |-> rc, skip |-> FALSE]
      ELSE [t |-> AddRecx(r2.t, e), rc |-> 0, skip |-> FALSE]

\* agg_akey_post
DrvAkeyPost(t, o1, o2) ==
  LET r1 == StripeCall(t, o1)
      r2 == IF r1.rc # -2 /\ ~r1.t.aborted
               /\ t.as_stripenum < r1.t.as_stripenum
            THEN StripeCall(r1.t, o2) ELSE NoCall(r1.t)
  IN  IF t.as_extent_cnt = 0 THEN [t |-> t, rc |-> 0, yield |-> FALSE]
      ELSE IF r1.rc = -2 \/ r2.rc = -2 \/ r2.t.aborted
      THEN [t |-> r2.t, rc |-> IF r2.t.aborted THEN 0 ELSE -2, yield |-> FALSE]
      ELSE [t |-> [r2.t EXCEPT !.as_stripenum = 0], rc |-> 0, yield |-> TRUE]

\* the answer of ec_aggregate_yield left aside
DrvPostCb_yield_ignored(t, type, o1, o2, y) ==
  LET r == IF type = "akey" THEN DrvAkeyPost(t, o1, o2)
           ELSE [t |-> t, rc |-> 0, yield |-> FALSE]
      over == r.t.ap_credits + 1 > CreditsMax
      t2 == [r.t EXCEPT !.posts = @ + 1,
                        !.ap_credits = IF over THEN 0 ELSE @ + 1,
                        !.yields = IF over THEN Append(@, t.posts + 1) ELSE @,
                        !.yielded = @ \/ (over /\ y)]
  IN  IF r.t.aborted
      THEN [t |-> r.t, rc |-> 0, yield |-> FALSE, asked |-> FALSE]
      ELSE [t |-> t2, rc |-> r.rc,
            yield |-> r.yield \/ over, asked |-> over]

\* agg_iterate_post_cb: the credits and ec_aggregate_yield, whose answer is y
DrvPostCb(t, type, o1, o2, y) ==
  LET r == IF type = "akey" THEN DrvAkeyPost(t, o1, o2)
           ELSE [t |-> t, rc |-> 0, yield |-> FALSE]
      over == r.t.ap_credits + 1 > CreditsMax
      t2 == [r.t EXCEPT !.posts = @ + 1,
                        !.ap_credits = IF over THEN 0 ELSE @ + 1,
                        !.yields = IF over THEN Append(@, t.posts + 1) ELSE @,
                        !.yielded = @ \/ (over /\ y)]
  IN  IF r.t.aborted
      THEN [t |-> r.t, rc |-> 0, yield |-> FALSE, asked |-> FALSE]
      ELSE [t |-> t2, rc |-> IF over /\ y THEN 1 ELSE r.rc,
            yield |-> r.yield \/ over, asked |-> over]

\* set_reprobe of the extent store for VOS_ITER_CB_YIELD: the level of the
\* callback and the levels above it are probed again; the sorted record
\* iterator is not
SetReprobe(t, type, yield) ==
  IF ~yield THEN t
  ELSE [t EXCEPT !.reprobe =
          [obj |-> TRUE,
           dkey |-> @.dkey \/ type \in {"dkey", "akey", "recx"},
           akey |-> @.akey \/ type \in {"akey", "recx"}]]

Failures(t) == Len(SelectSeq(t.calls, LAMBDA c : c.out # "ok"))

Outcomes == {"ok", "err", "refresh"}

\* the failures of the store are counted against MaxFaults, and an outcome
\* is drawn only for a call that is made
Drawn(t, r, o1, o2) ==
  /\ Failures(r.t) <= MaxFaults
  /\ Len(r.t.calls) - Len(t.calls) < 2 => o2 = "ok"
  /\ Len(r.t.calls) - Len(t.calls) < 1 => o1 = "ok"

Child(type) ==
  IF type = "obj" THEN "dkey" ELSE IF type = "dkey" THEN "akey" ELSE "recx"

Parent(type) ==
  IF type = "recx" THEN "akey" ELSE IF type = "akey" THEN "dkey" ELSE "obj"

\* vos_iterate_internal after the pre-callback of an entry of level type
AfterPre(t, type, r) ==
  IF r.skip \/ type = "recx"
  THEN [r.t EXCEPT !.phase = "post"]
  ELSE [r.t EXCEPT !.level = Child(type), !.phase = "fetch",
                   !.again = FALSE, !.nrecx = 0,
                   !.dkey = IF type = "obj" THEN 0 ELSE @,
                   !.akey = IF type = "dkey" THEN NoAkey ELSE @,
                   !.recx = NoRecx]

Fetched(t) ==
  [t EXCEPT !.entries = IF t.again THEN @ ELSE @ + 1, !.again = FALSE]

\* vos_iterate returns rc to ds_obj_ec_aggregate
Returned(t, rc) ==
  /\ trav' = t
  /\ rc_run' = rc
  /\ pc' = IF t.aborted THEN "crashed" ELSE IF rc = -2 THEN "refresh" ELSE "end"

Delivered(t, type, r) ==
  IF r.rc # 0 \/ r.t.aborted THEN Returned(r.t, r.rc)
  ELSE /\ trav' = AfterPre(t, type, r)
       /\ UNCHANGED << pc, rc_run >>

DriverInit ==
  /\ pc = "iterate"
  /\ oca = DriverClass
  /\ shard = DriverClass.k
  /\ vos = [rep |-> {}, par |-> {}]
  /\ iter = << >>
  /\ pos = 1
  /\ entry = [st |-> EmptyStripe, ape_epoch |-> 0, obj_hdl |-> FALSE,
              pshards |-> NoPeerShards,
              pbuf |-> [src |-> "none", stripenum |-> 0, epoch |-> 0],
              lost |-> << >>]
  /\ hist = << >>
  /\ nfaults = 0
  /\ rc_run = 0
  /\ ap_epr = [epr_lo |-> 0, epr_hi |-> MaxEpoch]
  /\ is_current = FALSE
  /\ sc_ec_agg_eph = 0
  /\ runs = << >>
  /\ trav = Traversal0
  /\ ult = NoOffload

DriverSame == UNCHANGED << oca, shard, vos, iter, pos, entry, hist, nfaults, ap_epr, is_current, sc_ec_agg_eph, runs, ult >>

Fetching(type) ==
  /\ pc = "iterate" /\ trav.level = type /\ trav.phase = "fetch"
  /\ trav.again \/ trav.entries < MaxEntries

\* an object entry and agg_iterate_pre_cb on it
IterObject ==
  /\ Fetching("obj")
  /\ \E e \in IF trav.again THEN {trav.obj} ELSE ObjEntries(trav.obj) :
       Delivered([Fetched(trav) EXCEPT !.obj = e], "obj",
                 DrvObject([Fetched(trav) EXCEPT !.obj = e], e))
  /\ DriverSame

\* a dkey entry and agg_iterate_pre_cb on it
IterDkey ==
  /\ Fetching("dkey")
  /\ \E e \in IF trav.again THEN {trav.dkey} ELSE (trav.dkey + 1)..MaxKeys :
       Delivered([Fetched(trav) EXCEPT !.dkey = e], "dkey",
                 DrvDkey([Fetched(trav) EXCEPT !.dkey = e], e))
  /\ DriverSame

\* an akey entry and agg_iterate_pre_cb on it
IterAkey ==
  /\ Fetching("akey")
  /\ \E e \in IF trav.again THEN {trav.akey} ELSE AkeyEntries(trav.akey) :
       Delivered([Fetched(trav) EXCEPT !.akey = e], "akey",
                 DrvAkey([Fetched(trav) EXCEPT !.akey = e], e))
  /\ DriverSame

\* a record extent and agg_iterate_pre_cb on it
IterRecx ==
  /\ Fetching("recx")
  /\ \E e \in RecxEntries(trav), o1, o2 \in Outcomes :
       \E r \in {DrvDataExtent([Fetched(trav) EXCEPT !.recx = e, !.nrecx = @ + 1], e, o1, o2)} :
         /\ Drawn(trav, r, o1, o2)
         /\ Delivered(trav, "recx", r)
  /\ DriverSame

\* the iterator of a level is at its end
IterEnd ==
  /\ pc = "iterate" /\ trav.phase = "fetch" /\ ~trav.again
  /\ IF trav.level = "obj" THEN Returned(trav, 0)
     ELSE /\ trav' = [trav EXCEPT !.level = Parent(@), !.phase = "post"]
          /\ UNCHANGED << pc, rc_run >>
  /\ DriverSame

\* need_reprobe after the post-callback: the anchor entry is fetched again
AfterPost(t, type) ==
  IF type = "recx" THEN [t EXCEPT !.phase = "fetch"]
  ELSE [t EXCEPT !.phase = "fetch", !.again = t.reprobe[type],
                 !.reprobe[type] = FALSE]

\* agg_iterate_post_cb on the current entry
IterPost ==
  /\ pc = "iterate" /\ trav.phase = "post"
  /\ \E o1, o2 \in Outcomes, y \in BOOLEAN :
       \E r \in {DrvPostCb(trav, trav.level, o1, o2, y)} :
         /\ Drawn(trav, r, o1, o2)
         /\ y => r.asked
         /\ IF r.rc # 0 \/ r.t.aborted THEN Returned(r.t, r.rc)
            ELSE /\ trav' = AfterPost(SetReprobe(r.t, trav.level, r.yield), trav.level)
                 /\ UNCHANGED << pc, rc_run >>
  /\ DriverSame

\* the restart with the re-probe flags left as they are
Refresh_flags_kept ==
  /\ pc = "refresh"
  /\ \E res \in {-3, -1, 0} :
       IF res = -3
       THEN /\ trav' = [trav EXCEPT !.level = "obj", !.phase = "fetch",
                          !.again = TRUE, !.restarts = @ + 1]
            /\ pc' = "iterate"
            /\ UNCHANGED rc_run
       ELSE /\ rc_run' = res
            /\ pc' = "end"
            /\ UNCHANGED trav
  /\ DriverSame

\* dtx_refresh after a needs-refresh: -3 asks to retry
Refresh ==
  /\ pc = "refresh"
  /\ \E res \in {-3, -1, 0} :
       IF res = -3
       THEN /\ trav' = [trav EXCEPT !.level = "obj", !.phase = "fetch",
                          !.again = TRUE, !.restarts = @ + 1,
                          !.reprobe = [obj |-> FALSE, dkey |-> FALSE, akey |-> FALSE]]
            /\ pc' = "iterate"
            /\ UNCHANGED rc_run
       ELSE /\ rc_run' = res
            /\ pc' = "end"
            /\ UNCHANGED trav
  /\ DriverSame

DriverNext == IterObject \/ IterDkey \/ IterAkey \/ IterRecx \/ IterEnd \/ IterPost \/ Refresh \/ AggregateEnd

DriverSpec == DriverInit /\ [][DriverNext]_vars

(* -------------------- properties of the traversal ---------------------- *)
StripeOf(c) == [oid |-> c.oid, dkey |-> c.dkey, akey |-> c.akey, stripe |-> c.stripe]

\* C23: in one run no stripe of an akey of a dkey of an object is passed to
\* agg_process_stripe twice, restarts after a needs-refresh included, and a
\* call that ended in needs-refresh is the last call made for its object
C23_EachStripeOnce ==
  \A i, j \in 1..Len(trav.calls) :
    i < j => /\ StripeOf(trav.calls[i]) # StripeOf(trav.calls[j])
             /\ trav.calls[i].out = "refresh" => trav.calls[j].oid # trav.calls[i].oid

(* ------------------------- errors of a stripe -------------------------- *)
\* the assembler fields of the stripe under assembly
AssembledNow(st) ==
  << st.as_stripenum, st.as_dextents, st.as_extent_cnt, st.as_stripe_fill,
     st.as_offset, st.as_hi_epoch, st.as_has_holes >>

\* agg_data_extent took an entry, its first agg_process_stripe call failed
\* and the extent could be allocated
FailedThenTaken ==
  /\ pc = "recx" /\ pc' # "crashed"
  /\ Len(hist') > Len(hist)
  /\ hist'[Len(hist) + 1].rc # 0
  /\ nfaults' = nfaults + 1

DriverLive == DriverSpec /\ WF_vars(DriverNext)

NoReprobe == [obj |-> FALSE, dkey |-> FALSE, akey |-> FALSE]

Anchors(t) == << t.obj, t.dkey, t.akey, t.recx >>

C26_YieldSoftAbort ==
  /\ [](trav.yielded =>
          /\ pc \in { "end", "done" }
          /\ rc_run = 1
          /\ sc_ec_agg_eph = 0)
  /\ [][trav.yielded => trav'.calls = trav.calls]_vars

\* the yield answered true while extents were assembled, and the caller
\* passed is_current
C26_Witness ==
  /\ pc = "done" /\ trav.yielded /\ is_current
  /\ trav.as_extent_cnt > 0

(* ------------------------------ the credits ---------------------------- *)
\* C27: the n-th invocation of ec_aggregate_yield happens at post-callback
\* number n * credits_max, and ap_credits never exceeds credits_max after a
\* post-callback has returned.
C27_YieldEveryCreditsMax ==
  /\ \A n \in 1..Len(trav.yields) : trav.yields[n] = n * CreditsMax
  /\ trav.ap_credits <= CreditsMax

(* --------------------------- eligible objects -------------------------- *)
Eligible(e) == e.ec /\ e.leader = 1 /\ PidxAssert(e)

\* C28: the object the aggregation entry was reset for is an EC object led
\* by this target on a parity shard (shard modulo K+P in [K, K+P)), the
\* assertion of ec_age2pidx never fails, and an object that is not eligible
\* is skipped without ending the traversal.
C28_OnlyParityLeaders ==
  /\ trav.ae_oid # NoObject => Eligible(trav.ae_oid)
  /\ pc # "crashed"
  /\ rc_run = 1 => trav.yielded

(* ----------------------------- skipped keys ---------------------------- *)
\* C29: agg_dkey and agg_akey skip a dkey or an array akey only if the same
\* key under the same parent was delivered to the assembler before in the
\* run.
C29_SkipsOnlySeenKeys == trav.strays = {}

(* ----------------------------- parity writes --------------------------- *)
StoredParity(c) == ParityEpochs(c.pre.par, c.stripenum)

InStripeOf(w, c) ==
  w.rx_idx < StripeEnd(c.stripenum) /\ StripeStart(c.stripenum) < w.rx_idx + w.rx_nr

\* a replica extent of the stripe written after every parity of the stripe
NewerReplica(c) ==
  \E w \in c.pre.rep :
    /\ ~w.hole /\ InStripeOf(w, c)
    /\ \A ep \in StoredParity(c) : w.epoch > ep

\* every record of the stripe is visible replica data
FullOfData(c) ==
  \A i \in StripeStart(c.stripenum)..(StripeEnd(c.stripenum) - 1) :
    Covered(c.pre.rep, i) /\ ~TopAt(c.pre.rep, i).hole

\* C30: a local parity write is for the cell of the stripe being processed,
\* at the stripe's highest epoch, and is made only if the stripe has parity
\* and a replica newer than it, or has no parity and is full of data.
C30_ParityWriteJustified ==
  \A n \in 1..Len(hist) : \A e \in ParityWrites(hist[n]) :
    /\ e.recx = Recx(hist[n].stripenum * ec_age2cs, ec_age2cs)
    /\ e.epoch = hist[n].st.as_hi_epoch
    /\ IF StoredParity(hist[n]) # {} THEN NewerReplica(hist[n])
       ELSE FullOfData(hist[n])

(* ------------------------ the shard of a request ----------------------- *)
RpcTypes == { "EC_AGGREGATE", "EC_REPLICATE" }

\* the requests of one type a call sent to one peer
SentTo(c, type, peer) == { e \in Rpcs(c, type) : e.peer = peer }

\* C31: every request goes to a peer parity index other than the sender's
\* and names that peer's parity shard, rounddown(shard, K+P) + K + peer; a
\* call whose requests all succeeded sent exactly one request of the type
\* to each peer.
C31_RequestsNamePeerShard ==
  \A n \in 1..Len(hist) : \A type \in RpcTypes :
    /\ \A e \in Rpcs(hist[n], type) :
         /\ e.peer \in Peers
         /\ e.shard = PeerShard(e.peer)
         /\ e.shard # ec_age2shard
         /\ e.shard % (ec_age2k + ec_age2p) >= ec_age2k
    /\ (Rpcs(hist[n], type) # {} /\ \A e \in Rpcs(hist[n], type) : e.status = 0)
         => \A peer \in Peers : Cardinality(SentTo(hist[n], type, peer)) = 1

(* ------------------------------ the watermark -------------------------- *)
\* C32: after a run that returned 0 the watermark is epr_hi if is_current
\* was passed and is what it was before the run (0) if not; the end of the
\* run changes the watermark and nothing else.
C32_WatermarkOnSuccess ==
  /\ [](pc = "done" /\ rc_run = 0 =>
          sc_ec_agg_eph = IF is_current THEN ap_epr.epr_hi ELSE 0)
  /\ [][pc = "end" => UNCHANGED << vos, entry, hist, rc_run, ap_epr >>]_vars

\* a run that processed a stripe, returned 0 and was passed is_current
C32_Witness ==
  /\ pc = "done" /\ rc_run = 0 /\ is_current
  /\ StripeCalls # {}
  /\ sc_ec_agg_eph = ap_epr.epr_hi

(* ------------------------- allocation failures ------------------------- *)
\* the run in which the only failures are failed allocations: of the extent
\* in agg_data_extent, of the recx array in agg_process_holes
AllocFaults == { "none", "nomem" }

AllocRecxPre == RecxPreUnder(AllocFaults)

AllocAkeyPost == AkeyPostUnder(AllocFaults)

AllocNext == ClientWrite \/ PriorParity \/ Begin \/ AllocRecxPre \/ AllocAkeyPost \/ AggregateEnd

AllocSpec == Init /\ [][AllocNext]_vars

\* the stripe calls in which an allocation failed
AllocFailed == { n \in 1..Len(hist) : hist[n].fault = "nomem" }

\* C33: a failed allocation ends the traversal: the call in which it
\* happened is the last of the run and the run returns an error code, and
\* so does a run in which the allocation of an extent failed.
C33_NomemAborts ==
  /\ \A n \in AllocFailed :
       /\ n = Len(hist)
       /\ pc \in { "end", "done" }
       /\ rc_run # 0
  /\ nfaults > Cardinality(AllocFailed) => pc \in { "end", "done" } /\ rc_run # 0

PeersInit ==
  /\ pc = "setup"
  /\ oca = [k |-> 2, p |-> 3, len |-> 1]
  /\ shard \in ParityShards(oca)
  /\ vos = [rep |-> {}, par |-> {}]
  /\ iter = << >>
  /\ pos = 1
  /\ entry = [st |-> EmptyStripe, ape_epoch |-> 0, obj_hdl |-> FALSE,
              pshards |-> NoPeerShards,
              pbuf |-> [src |-> "none", stripenum |-> 0, epoch |-> 0],
              lost |-> << >>]
  /\ hist = << >>
  /\ nfaults = MaxFaults
  /\ rc_run = 0
  /\ ap_epr = [epr_lo |-> 0, epr_hi |-> MaxEpoch]
  /\ is_current = FALSE
  /\ sc_ec_agg_eph = 0
  /\ runs = << >>
  /\ trav = NoTraversal
  /\ ult = NoOffload

PeersSpec == PeersInit /\ [][Next]_vars

\* the EC_AGGREGATE requests of a call that carry a removal list
WithList(call) == { e \in Rpcs(call, "EC_AGGREGATE") : e.remove # << >> }

\* C35: every EC_AGGREGATE request that carries a removal list carries
\* ea_remove_nr = extent count + hold-over count entries, and the assertion
\* on the fill index holds for each peer: when a request with a list was
\* sent and no request failed, every peer was sent one with a list.
C35_RemovalListFilled ==
  \A n \in 1..Len(hist) :
    /\ \A e \in WithList(hist[n]) :
         Len(e.remove) = hist[n].st.as_extent_cnt + hist[n].st.as_ho_ext_cnt
    /\ (WithList(hist[n]) # {} /\ \A e \in WithList(hist[n]) : e.status = 0)
         => \A peer \in Peers :
              Cardinality({ e \in WithList(hist[n]) : e.peer = peer }) = 1

(* ----------------------- the carry-over assertions --------------------- *)
\* agg_clear_extents on the stripe a call was made for
Cleared(c) == agg_clear_extents([st |-> c.st, lost |-> << >>, abort |-> FALSE])

\* C36: the assertions of agg_carry_over and agg_clear_extents hold for the
\* stripe of every agg_process_stripe call: each extent spans at most two
\* consecutive stripes, at most one has a tail, the tail is not longer than
\* the extent and starts at the next stripe, and without tail the extent
\* count is zero after the loop.
C36_CarryOverAsserts ==
  \A n \in StripeCalls : ~Cleared(hist[n]).abort

(* ----------------------------- the parity probe ------------------------ *)
\* what a call changed or sent: requests, fetches, codec work, store changes
Worked(c) == c.ev # << >> \/ c.post # c.pre

\* C37: the parity epoch a call classifies its stripe with is the epoch of
\* the parity extent visible for that stripe when the call is made, and the
\* no-parity sentinel when there is none, whatever an earlier probe found;
\* a call whose probe returned an error does no codec work, sends no request
\* and leaves the local store as it is.
C37_ProbePerCall ==
  \A n \in StripeCalls :
    /\ hist[n].fault # "probe"
         => hist[n].ape_epoch = VisibleParity(hist[n].pre.par, hist[n].stripenum)
    /\ hist[n].fault = "probe"
         => hist[n].rc # 0 /\ hist[n].branch = "none" /\ ~Worked(hist[n])

\* a stripe without parity was classified after a stripe with parity, and the
\* probe of another call failed
C37_Witness ==
  /\ \E n \in StripeCalls : \E k \in StripeCalls :
       /\ n < k
       /\ hist[n].fault = "none" /\ hist[k].fault = "none"
       /\ hist[n].ape_epoch # EC_AGE_EPOCH_NO_PARITY
       /\ hist[k].ape_epoch = EC_AGE_EPOCH_NO_PARITY
       /\ hist[k].st.as_extent_cnt # 0
  /\ \E n \in StripeCalls : hist[n].fault = "probe"

(* ------------------------ the offloaded units of work ------------------ *)
\* agg_encode_full_stripe, agg_process_partial_stripe, agg_peer_update and
\* agg_process_holes each create an eventual, start a ULT on the offload
\* xstream, wait for the eventual, read the status and free the eventual.
\* The caller and the ULT run on different xstreams: their steps interleave.
Kinds == { "encode", "partial", "peer", "holes" }

Offloads == 1..MaxOffloads

\* the labels the ULT of a kind can leave its body to, with the rc it holds
Exits(kind) ==
  IF kind = "encode" THEN { [label |-> "out", rc |-> 0] }
  ELSE IF kind = "peer"
  THEN { [label |-> "out", rc |-> -1], [label |-> "out_rpc", rc |-> -1],
         [label |-> "out_bulk", rc |-> -1], [label |-> "out_bulk", rc |-> 0] }
  ELSE { [label |-> "out", rc |-> -1], [label |-> "out", rc |-> 0] }

Offload0 ==
  [drv |-> "idle", kind |-> "none", n |-> 0, status |-> 0, ret |-> 0,
   eventual |-> [i \in Offloads |-> "none"],
   nset |-> [i \in Offloads |-> 0],
   u |-> [i \in Offloads |-> "none"],
   rc |-> [i \in Offloads |-> 0],
   stale |-> FALSE]

OffloadInit ==
  /\ pc = "offload"
  /\ oca = [k |-> 2, p |-> 2, len |-> 1]
  /\ shard = 2
  /\ vos = [rep |-> {}, par |-> {}]
  /\ iter = << >>
  /\ pos = 1
  /\ entry = [st |-> EmptyStripe, ape_epoch |-> 0, obj_hdl |-> FALSE,
              pshards |-> NoPeerShards,
              pbuf |-> [src |-> "none", stripenum |-> 0, epoch |-> 0],
              lost |-> << >>]
  /\ hist = << >>
  /\ nfaults = 0
  /\ rc_run = 0
  /\ ap_epr = [epr_lo |-> 0, epr_hi |-> MaxEpoch]
  /\ is_current = FALSE
  /\ sc_ec_agg_eph = 0
  /\ runs = << >>
  /\ trav = NoTraversal
  /\ ult = Offload0

OffloadSame == UNCHANGED << pc, oca, shard, vos, iter, pos, entry, hist, nfaults, rc_run, ap_epr, is_current, sc_ec_agg_eph, runs, trav >>

\* agg_process_stripe reaches one of the four functions
OffloadCall ==
  /\ ult.drv = "idle"
  /\ ult.n < MaxOffloads
  /\ \E kind \in Kinds :
       ult' = [ult EXCEPT !.drv = "create", !.kind = kind, !.n = ult.n + 1,
                          !.status = 0, !.ret = 0]
  /\ OffloadSame

\* ABT_eventual_create: on failure goto out
EventualCreate ==
  /\ ult.drv = "create"
  /\ \E ok \in BOOLEAN :
       ult' = IF ok
              THEN [ult EXCEPT !.drv = "spawn", !.eventual[ult.n] = "unset"]
              ELSE [ult EXCEPT !.drv = "out", !.ret = -1]
  /\ OffloadSame

\* dss_ult_create(..., DSS_XS_OFFLOAD, ...): on failure goto ev_out
UltCreate ==
  /\ ult.drv = "spawn"
  /\ \E ok \in BOOLEAN :
       ult' = IF ok
              THEN [ult EXCEPT !.drv = "wait", !.u[ult.n] = "run"]
              ELSE [ult EXCEPT !.drv = "ev_out", !.ret = -1]
  /\ OffloadSame

\* ABT_eventual_wait returns once the eventual is set
EventualWait ==
  /\ ult.drv = "wait"
  /\ ult.eventual[ult.n] = "set"
  /\ ult' = [ult EXCEPT !.drv = "status"]
  /\ OffloadSame

\* the caller reads *status (agg_process_holes goes on with the buffers the
\* ULT filled)
ReadStatus ==
  /\ ult.drv = "status"
  /\ ult' = [ult EXCEPT !.drv = "ev_out", !.status = ult.rc[ult.n],
                        !.ret = ult.rc[ult.n]]
  /\ OffloadSame

\* ev_out: ABT_eventual_free
EventualFree ==
  /\ ult.drv = "ev_out"
  /\ ult' = [ult EXCEPT !.drv = "out", !.eventual[ult.n] = "freed"]
  /\ OffloadSame

\* out: return rc
OffloadReturn ==
  /\ ult.drv = "out"
  /\ ult' = [ult EXCEPT !.drv = "idle"]
  /\ OffloadSame

\* the body of the ULT up to the label it leaves it to
UltBody ==
  /\ \E i \in Offloads :
       /\ ult.u[i] = "run"
       /\ \E x \in Exits(ult.kind) :
            ult' = [ult EXCEPT !.u[i] = x.label, !.rc[i] = x.rc]
  /\ OffloadSame

\* out_bulk: and out_rpc: of agg_peer_update_ult fall through to out:
UltCleanup ==
  /\ \E i \in Offloads :
       /\ ult.u[i] \in { "out_bulk", "out_rpc" }
       /\ ult' = [ult EXCEPT !.u[i] = IF ult.u[i] = "out_bulk" THEN "out_rpc"
                                      ELSE "out"]
  /\ OffloadSame

\* the eventual set only when the unit of work succeeded
SetEventual_on_success(i) ==
  IF ult.rc[i] # 0 THEN [ult EXCEPT !.u[i] = "exited"]
  ELSE [ult EXCEPT !.u[i] = "exited",
                   !.eventual[i] = IF ult.eventual[i] = "unset" THEN "set"
                                   ELSE ult.eventual[i],
                   !.nset[i] = ult.nset[i] + 1,
                   !.stale = ult.stale \/ ult.eventual[i] = "freed"]

\* out: ABT_eventual_set(stripe_ud->asu_eventual, &rc, sizeof(rc)), the last
\* statement of each ULT
SetEventual(i) ==
  [ult EXCEPT !.u[i] = "exited",
              !.eventual[i] = IF ult.eventual[i] = "unset" THEN "set"
                              ELSE ult.eventual[i],
              !.nset[i] = ult.nset[i] + 1,
              !.stale = ult.stale \/ ult.eventual[i] = "freed"]

UltOut ==
  /\ \E i \in Offloads :
       /\ ult.u[i] = "out"
       /\ ult' = SetEventual(i)
  /\ OffloadSame

OffloadNext == OffloadCall \/ EventualCreate \/ UltCreate \/ EventualWait \/ ReadStatus \/ EventualFree \/ OffloadReturn \/ UltBody \/ UltCleanup \/ UltOut

OffloadSpec == OffloadInit /\ [][OffloadNext]_vars

\* the offload xstream runs its ULT, and the caller is scheduled again once
\* the eventual it waits for is set
OffloadLive == OffloadSpec /\ WF_vars(UltBody) /\ WF_vars(UltCleanup) /\ WF_vars(UltOut) /\ WF_vars(EventualWait)

\* the ULTs that have been started and have not returned
InFlight == { i \in Offloads : ult.u[i] \notin { "none", "exited" } }

\* the caller is past its wait (or never waited): it reads the status and
\* the buffers, frees the eventual, returns to the iteration
PastWait == ult.drv \in { "status", "ev_out", "out", "idle" }

Linked(list) == { list[i] : i \in 1..Len(list) }

CountsMatch ==
  /\ entry.st.as_extent_cnt = Len(entry.st.as_dextents)
  /\ entry.st.as_ho_ext_cnt = Len(entry.st.as_hoextents)

\* C39: between two iterator callbacks as_extent_cnt is the number of
\* extents linked in as_dextents and as_ho_ext_cnt the number linked in
\* as_hoextents, no extent is linked in both, and every extent the assembler
\* allocated is linked in one of the lists or has been freed.
C39_ListsAccountForExtents ==
  pc \in { "recx", "akey_post", "end", "done" }
    => /\ CountsMatch
       /\ Linked(entry.st.as_dextents) \cap Linked(entry.st.as_hoextents) = {}
       /\ entry.lost = << >>

(* ------------------------------- has_holes ----------------------------- *)
HoleLinked(st) == \E i \in 1..Len(st.as_dextents) : st.as_dextents[i].ae_hole

\* C40: as_has_holes is true for every stripe that holds a hole extent, the
\* partial path is not taken for a stripe that holds one, and full encode is
\* not selected for a stripe in which as_has_holes is true.
C40_HolesKeepOffParity ==
  \A n \in StripeCalls :
    /\ HoleLinked(hist[n].st) => hist[n].st.as_has_holes
    /\ hist[n].branch = "partial" => ~HoleLinked(hist[n].st)
    /\ hist[n].branch = "full" => ~hist[n].st.as_has_holes

====
